---------------------------- MODULE Spec2Model ----------------------------
(***************************************************************************)
(* OpenActa instruction language front end: the recursive-descent parser   *)
(* of parser.go (second, current version, lines 522-1220) run on the token *)
(* slices that lexer() builds with the tables of lexer_symbols.go, and the *)
(* regex lexer of lexer.go (current version) run on query texts.           *)
(*                                                                         *)
(* Go slices are 0-based; token_index keeps the Go value and At(toks, i)   *)
(* reads toks[i].  An index or slice bound out of range is a Go run-time   *)
(* panic, modelled as the parse ending with a value of kind "panic".       *)
(*                                                                         *)
(* An int64 count of nanoseconds since the Unix epoch is held as the       *)
(* record [d, s, n]: days since the epoch, second of the day, nanosecond   *)
(* of the second.  The clock is read once per parse: every time.Now() of   *)
(* one parser() call returns the same instant, now.                        *)
(***************************************************************************)
EXTENDS Integers, Sequences, FiniteSets, TLC

(***************************************************************************)
(* Symbols: the iota enumeration of lexer_symbols.go.                      *)
(***************************************************************************)
sym_none == 0
sym_find == 1
sym_sort == 2
sym_group == 3
sym_distinct == 4
sym_all == 5
sym_pipe == 6
sym_matching == 7
sym_since == 8
sym_between == 9
sym_yesterday == 10
sym_before == 11
sym_last == 12
sym_previous == 13
sym_ago == 14
sym_forever == 15
sym_second == 16
sym_minute == 17
sym_hour == 18
sym_day == 19
sym_week == 20
sym_fortnight == 21
sym_month == 22
sym_quarter == 23
sym_year == 24
sym_century == 25
sym_monday == 26
sym_tuesday == 27
sym_wednesday == 28
sym_thursday == 29
sym_friday == 30
sym_saturday == 31
sym_sunday == 32
sym_january == 33
sym_february == 34
sym_march == 35
sym_april == 36
sym_may == 37
sym_june == 38
sym_july == 39
sym_august == 40
sym_september == 41
sym_october == 42
sym_november == 43
sym_december == 44
sym_comma == 45
sym_lparen == 46
sym_rparen == 47
sym_minus == 48
sym_plus == 49
sym_equal == 50
sym_not_equal == 51
sym_mul == 52
sym_div == 53
sym_mod == 54
sym_less_equal == 55
sym_greater_equal == 56
sym_less == 57
sym_greater == 58
sym_and == 59
sym_or == 60
sym_not == 61
sym_like == 62

\* sym_as is used by do_derived_field (parser.go:1049); the enumeration that
\* declares it is not part of the available lexer_symbols.go.  Only its being
\* different from every other symbol matters.
sym_as == 63

find_flags_all == 1

(***************************************************************************)
(* Tokens (lexer_token).  stmt_pos is stood for by the token's index: an   *)
(* error built from tokens[i].stmt_pos is recorded with at = i.            *)
(***************************************************************************)
Tok(tag, token, val) == [tag |-> tag, token |-> token, val |-> val]

At(toks, i) == toks[i + 1]

\* What lexer() emits for a keyword or operator: the tag of its regex rule and
\* the entry of lexer_symbol_table for its spelling.
lexer_symbol_table ==
  [FIND |-> sym_find, SORT |-> sym_sort, DISTINCT |-> sym_distinct, ALL |-> sym_all,
   MATCHING |-> sym_matching, SINCE |-> sym_since, BETWEEN |-> sym_between,
   YESTERDAY |-> sym_yesterday, BEFORE |-> sym_before, LAST |-> sym_last,
   AGO |-> sym_ago, FOREVER |-> sym_between,
   SECOND |-> sym_second, MINUTE |-> sym_minute, HOUR |-> sym_hour,
   SECONDS |-> sym_second, MINUTES |-> sym_minute, HOURS |-> sym_hour,
   DAY |-> sym_day, WEEK |-> sym_week, FORTNIGHT |-> sym_fortnight, MONTH |-> sym_month,
   DAYS |-> sym_day, WEEKS |-> sym_week, FORTNIGHTS |-> sym_fortnight, MONTHS |-> sym_month,
   QUARTER |-> sym_quarter, YEAR |-> sym_year, CENTURY |-> sym_century,
   MONDAY |-> sym_monday, TUESDAY |-> sym_tuesday, WEDNESDAY |-> sym_wednesday,
   THURSDAY |-> sym_thursday, FRIDAY |-> sym_friday, SATURDAY |-> sym_saturday,
   SUNDAY |-> sym_sunday,
   JAN |-> sym_january, FEB |-> sym_february, MAR |-> sym_march, APR |-> sym_april,
   MAY |-> sym_may, JUN |-> sym_june, JUL |-> sym_july, AUG |-> sym_august,
   SEP |-> sym_september, OCT |-> sym_october, NOV |-> sym_november, DEC |-> sym_december,
   AND |-> sym_and, OR |-> sym_or]

Kw(tag, word) == Tok(tag, lexer_symbol_table[word], word)

Ident(name) == Tok("ident", sym_none, name)
Str(text) == Tok("string", sym_none, text)
IntLit(text) == Tok("int", sym_none, text)

tFIND == Kw("command", "FIND")
tALL == Kw("cmdspec", "ALL")
tSORT == Kw("command2", "SORT")
tDISTINCT == Kw("command2", "DISTINCT")
tPIPE == Tok("pipe", sym_pipe, "|")
tMATCHING == Kw("condition", "MATCHING")
tSINCE == Kw("temporal", "SINCE")
tBETWEEN == Kw("temporal", "BETWEEN")
tYESTERDAY == Kw("relative", "YESTERDAY")
tBEFORE == Kw("relative", "BEFORE")
tLAST == Kw("relative", "LAST")
tAGO == Kw("relative", "AGO")
tFOREVER == Kw("relative", "FOREVER")
tDAY == Kw("calendar", "DAY")
tCOMMA == Tok("comma", sym_comma, ",")
tEQUAL == Tok("equal", sym_equal, "=")
tLESS == Tok("less", sym_less, "<")
tAND == Kw("and", "AND")
tOR == Kw("or", "OR")
\* AS as the parser expects it (see sym_as).
tAS == Tok("as", sym_as, "AS")

(***************************************************************************)
(* Time.  An instant or a duration is [d, s, n]: days, seconds of the day  *)
(* and nanoseconds of the second, of value ((d * 86400) + s) * 10^9 + n.   *)
(***************************************************************************)
NanosPerSecond == 1000000000
SecondsPerDay == 86400

Norm(d, s, n) ==
  LET s1 == s + (n \div NanosPerSecond)
  IN  [d |-> d + (s1 \div SecondsPerDay), s |-> s1 % SecondsPerDay, n |-> n % NanosPerSecond]

TAdd(a, b) == Norm(a.d + b.d, a.s + b.s, a.n + b.n)
TSub(a, b) == Norm(a.d - b.d, a.s - b.s, a.n - b.n)
TLess(a, b) ==
  \/ a.d < b.d
  \/ a.d = b.d /\ a.s < b.s
  \/ a.d = b.d /\ a.s = b.s /\ a.n < b.n
TLeq(a, b) == a = b \/ TLess(a, b)

\* time.Duration(k): k nanoseconds.
Duration(k) == Norm(0, 0, k)

\* Time.UnixNano: the nanoseconds since the epoch as an int64.  An instant
\* before 1677-09-21 or after 2262-04-11 does not fit; the value returned is
\* then the count reduced modulo 2^64 nanoseconds into the int64 range.
Int64Span == [d |-> 213503, s |-> 84873, n |-> 709551616]
Int64Max == [d |-> 106751, s |-> 85636, n |-> 854775807]
Int64Min == TSub(TSub(Int64Max, Int64Span), Duration(0 - 1))

Int64Wrap(t) ==
  IF TLess(t, Int64Min) THEN TAdd(t, Int64Span)
  ELSE IF TLess(Int64Max, t) THEN TSub(t, Int64Span)
  ELSE t

UnixNano(t) == Int64Wrap(Int64Wrap(t))

temp_second == Norm(0, 1, 0)
temp_minute == Norm(0, 60, 0)
temp_hour == Norm(0, 60 * 60, 0)
temp_day == Norm(1, 0, 0)

\* clock_ref % temp_day of an instant after the epoch.
ModDay(t) == [d |-> 0, s |-> t.s, n |-> t.n]

\* Time.Truncate(time.Minute), Truncate(time.Hour), Truncate(24 * time.Hour):
\* down to a multiple of the unit since the zero time, which for these units
\* is a multiple of the unit since the epoch.
TruncateMinute(t) == [d |-> t.d, s |-> t.s - (t.s % 60), n |-> 0]
TruncateHour(t) == [d |-> t.d, s |-> t.s - (t.s % 3600), n |-> 0]
TruncateDay(t) == [d |-> t.d, s |-> 0, n |-> 0]

\* Proleptic Gregorian calendar, days counted from 1970-01-01 (the day
\* arithmetic behind Time.Date and Time.AddDate).  Each step takes the values
\* of the steps before it as parameters.
DaysFromDoe(era, yoe, doy) ==
  era * 146097 + (yoe * 365 + (yoe \div 4) - (yoe \div 100) + doy) - 719468

DaysFromEra(y, era, m, d) ==
  DaysFromDoe(era, y - era * 400, ((153 * (IF m > 2 THEN m - 3 ELSE m + 9) + 2) \div 5) + d - 1)

DaysFromYear(y, m, d) == DaysFromEra(y, y \div 400, m, d)

DaysFromCivil(y0, m, d) == DaysFromYear(IF m <= 2 THEN y0 - 1 ELSE y0, m, d)

CivilFromMonth(y, m, d) ==
  [year |-> y + (IF m <= 2 THEN 1 ELSE 0), month |-> m, day |-> d]

CivilFromMp(y, doy, mp) ==
  CivilFromMonth(y, IF mp < 10 THEN mp + 3 ELSE mp - 9, doy - ((153 * mp + 2) \div 5) + 1)

CivilFromDoy(y, doy) == CivilFromMp(y, doy, (5 * doy + 2) \div 153)

CivilFromYoe(era, doe, yoe) ==
  CivilFromDoy(yoe + era * 400, doe - (365 * yoe + (yoe \div 4) - (yoe \div 100)))

CivilFromDoe(era, doe) ==
  CivilFromYoe(era, doe,
               (doe - (doe \div 1460) + (doe \div 36524) - (doe \div 146096)) \div 365)

CivilFromEra(z, era) == CivilFromDoe(era, z - era * 146097)

CivilFromShifted(z) == CivilFromEra(z, z \div 146097)

CivilFromDays(z0) == CivilFromShifted(z0 + 719468)

\* time.Weekday: Sunday = 0 ... Saturday = 6.
Weekday(t) == (t.d + 4) % 7

\* time.Date(year, month, day, ...): month and day out of range are normalised.
DateDays(year, month, day) ==
  DaysFromCivil(year + ((month - 1) \div 12), ((month - 1) % 12) + 1, 1) + day - 1

\* t.AddDate(years, months, days) in location UTC.
AddCivil(c, t, years, months, days) ==
  [d |-> DateDays(c.year + years, c.month + months, c.day + days), s |-> t.s, n |-> t.n]

AddDate(t, years, months, days) == AddCivil(CivilFromDays(t.d), t, years, months, days)

(***************************************************************************)
(* Results.  Every fmt.Errorf of the parser quotes the query from          *)
(* tokens[at].stmt_pos; with at >= num_tokens that read is itself an index *)
(* out of range.                                                           *)
(***************************************************************************)
NoErr == [kind |-> "nil", msg |-> "", at |-> 0]
Panic(what, at) == [kind |-> "panic", msg |-> what, at |-> at]
OutOfRange(at) == Panic("index out of range", at)
ErrAt(num, msg, at) ==
  IF at >= num THEN OutOfRange(at) ELSE [kind |-> "error", msg |-> msg, at |-> at]

(***************************************************************************)
(* Temporal resolver.                                                      *)
(***************************************************************************)
\* strconv.Atoi on the spellings the "int" rule of the lexer can deliver here:
\* plain digit strings convert (a leading zero is dropped), E notation fails.
Numerals == <<"0", "1", "2", "3", "4", "5", "6", "7", "8", "9", "10", "11", "12">>

Atoi(text) ==
  IF \E k \in 1..Len(Numerals) : Numerals[k] = text
    THEN [ok |-> TRUE, i |-> (CHOOSE k \in 1..Len(Numerals) : Numerals[k] = text) - 1]
    ELSE IF text = "02" THEN [ok |-> TRUE, i |-> 2]
    ELSE [ok |-> FALSE, i |-> 0]

\* time.Parse with the layouts time.DateTime, time.DateOnly and time.TimeOnly on
\* the literals used as inputs; any other text matches no layout.  A time-only
\* literal is a time of day in year 0, whose UnixNano wraps in int64.
ParseDateTime(text) ==
  IF text = "2020-05-04 10:00:00" THEN [ok |-> TRUE, t |-> [d |-> 18386, s |-> 36000, n |-> 0]]
  ELSE [ok |-> FALSE, t |-> Norm(0, 0, 0)]

ParseDateOnly(text) ==
  CASE text = "2020-05-04" -> [ok |-> TRUE, t |-> [d |-> 18386, s |-> 0, n |-> 0]]
    [] text = "2022-10-09" -> [ok |-> TRUE, t |-> [d |-> 19274, s |-> 0, n |-> 0]]
    [] text = "2030-01-01" -> [ok |-> TRUE, t |-> [d |-> 21915, s |-> 0, n |-> 0]]
    [] OTHER -> [ok |-> FALSE, t |-> Norm(0, 0, 0)]

ParseTimeOnly(text) ==
  IF text = "10:00:00"
    THEN [ok |-> TRUE, t |-> [d |-> 0 - 79016, s |-> 31421, n |-> 128654848]]
    ELSE [ok |-> FALSE, t |-> Norm(0, 0, 0)]

\* prev_weekday after its first AddDate.
prev_weekday_week(t1, times) ==
  TruncateDay(IF times > 1 THEN AddDate(t1, 0, 0, 0 - 7) ELSE t1)

\* A prev_weekday that never answers with the current day.
prev_weekday_strict(curDateTime, weekday, times) ==
  prev_weekday_week(
    AddDate(curDateTime, 0, 0, 0 - ((((Weekday(curDateTime) - weekday) + 6) % 7) + 1)), times)

prev_weekday(curDateTime, weekday, times) ==
  prev_weekday_week(
    AddDate(curDateTime, 0, 0, 0 - ((((Weekday(curDateTime) - weekday) + 7)) % 7)), times)

\* A prev_month that takes the named month of this year while that month
\* is still running.
prev_month_of_current(cur, month, times) ==
  [d |-> DateDays(cur.year - ((IF cur.month < month THEN times + 1 ELSE times) - 1), month, 1),
   s |-> 0, n |-> 0]

\* prev_month with the calendar fields of curDateTime.
prev_month_of(cur, month, times) ==
  [d |-> DateDays(cur.year - ((IF cur.month <= month THEN times + 1 ELSE times) - 1), month, 1),
   s |-> 0, n |-> 0]

prev_month(curDateTime, month, times) ==
  prev_month_of(CivilFromDays(curDateTime.d), month, times)

\* The unit switch of do_reltime_ref.
IsRelUnit(tok) == tok \in sym_second..sym_december

\* Seconds, minutes and hours are subtracted as time.Duration(times),
\* time.Duration(60 * times) and time.Duration(3600 * times).
ClockStep(tok, times) ==
  CASE tok = sym_second -> Duration(times)
    [] tok = sym_minute -> Duration(60 * times)
    [] tok = sym_hour -> Duration(3600 * times)

\* Truncate of the clock cases.
ClockTruncate(tok, t) ==
  CASE tok = sym_second -> t
    [] tok = sym_minute -> TruncateMinute(t)
    [] tok = sym_hour -> TruncateHour(t)

\* The AddDate arguments of the calendar cases.
CalendarStep(tok, times) ==
  CASE tok = sym_day -> [years |-> 0, months |-> 0, days |-> 0 - times]
    [] tok = sym_week -> [years |-> 0, months |-> 0, days |-> 0 - (7 * times)]
    [] tok = sym_fortnight -> [years |-> 0, months |-> 0, days |-> 0 - (14 * times)]
    [] tok = sym_month -> [years |-> 0, months |-> 0 - times, days |-> 0]
    [] tok = sym_quarter -> [years |-> 0, months |-> 0 - (3 * times), days |-> 0]
    [] tok = sym_year -> [years |-> 0 - times, months |-> 0, days |-> 0]
    [] tok = sym_century -> [years |-> 0 - (100 * times), months |-> 0, days |-> 0]

CalendarTime(step, curDateTime) ==
  TruncateDay(AddDate(curDateTime, step.years, step.months, step.days))

RelTime(tok, times, curDateTime) ==
  CASE tok \in sym_second..sym_hour ->
         ClockTruncate(tok, TSub(curDateTime, ClockStep(tok, times)))
    [] tok \in sym_monday..sym_sunday ->
         prev_weekday(curDateTime, ((tok - sym_monday) + 1) % 7, times)
    [] tok \in sym_january..sym_december ->
         prev_month(curDateTime, (tok - sym_january) + 1, times)
    [] tok \in sym_day..sym_century ->
         CalendarTime(CalendarStep(tok, times), curDateTime)

\* A do_reltime_ref whose third shape steps the cursor back onto the count
\* that do_temp_ref has read.
RelShape_rewinding(toks, num, idx, int_literal) ==
  IF (idx + 1) < num /\ At(toks, idx).token = sym_last
    THEN [tok |-> At(toks, idx + 1).token, times |-> 1, idx |-> idx + 2]
  ELSE IF (idx + 2) < num /\ At(toks, idx + 1).token = sym_before
                          /\ At(toks, idx + 2).token = sym_last
    THEN [tok |-> At(toks, idx).token, times |-> 2, idx |-> idx + 3]
  ELSE IF (idx + 1) < num /\ At(toks, idx + 1).token = sym_ago
    THEN [tok |-> At(toks, idx).token, times |-> int_literal, idx |-> idx - 1]
  ELSE [tok |-> 0, times |-> 0, idx |-> idx]

\* The three shapes of do_reltime_ref, tried in this order: the unit symbol,
\* the count and the cursor after the shape (tok 0 and the cursor left alone
\* when none of them applies).
RelShape(toks, num, idx, int_literal) ==
  IF (idx + 1) < num /\ At(toks, idx).token = sym_last
    THEN [tok |-> At(toks, idx + 1).token, times |-> 1, idx |-> idx + 2]
  ELSE IF (idx + 2) < num /\ At(toks, idx + 1).token = sym_before
                          /\ At(toks, idx + 2).token = sym_last
    THEN [tok |-> At(toks, idx).token, times |-> 2, idx |-> idx + 3]
  ELSE IF (idx + 1) < num /\ At(toks, idx + 1).token = sym_ago
    THEN [tok |-> At(toks, idx).token, times |-> int_literal, idx |-> idx + 2]
  ELSE [tok |-> 0, times |-> 0, idx |-> idx]

\* do_reltime_ref once the shape sh is known: [err, idx, t, set]; t is the
\* value left in *clock_ref, set tells whether it was assigned.
reltime_of(sh, num, int_literal, curDateTime) ==
  IF IsRelUnit(sh.tok)
    THEN [err |-> NoErr, idx |-> sh.idx,
          t |-> UnixNano(RelTime(sh.tok, sh.times, curDateTime)), set |-> TRUE]
  ELSE IF int_literal = 0
    THEN [err |-> ErrAt(num, "unexpected symbol", sh.idx), idx |-> sh.idx,
          t |-> curDateTime, set |-> FALSE]
  ELSE [err |-> NoErr, idx |-> sh.idx, t |-> UnixNano(curDateTime), set |-> TRUE]

do_reltime_ref(toks, num, idx, int_literal, end, curDateTime) ==
  IF idx >= num
    THEN [err |-> OutOfRange(idx), idx |-> idx, t |-> curDateTime, set |-> FALSE]
    ELSE reltime_of(RelShape(toks, num, idx, int_literal), num, int_literal, curDateTime)

\* The closing bound of YESTERDAY and DAY BEFORE YESTERDAY.
EndOfDay(clock_ref) == TSub(TAdd(clock_ref, temp_day), temp_second)

\* clock_ref -= clock_ref % temp_day, and the closing bound when end is set.
DayStart(c1, end) ==
  IF end THEN EndOfDay(TSub(c1, ModDay(c1))) ELSE TSub(c1, ModDay(c1))

\* do_int_literal.
do_int_literal(tk) == Atoi(tk.val)

\* The absolute reference: the first layout that parses wins.
abstime_of(p1, p2, p3, num, idx, nowv) ==
  IF p1.ok THEN [err |-> NoErr, idx |-> idx + 1, t |-> p1.t, set |-> TRUE]
  ELSE IF p2.ok THEN [err |-> NoErr, idx |-> idx + 1, t |-> p2.t, set |-> TRUE]
  ELSE IF p3.ok THEN [err |-> NoErr, idx |-> idx + 1, t |-> p3.t, set |-> TRUE]
  ELSE [err |-> ErrAt(num, "invalid temporal reference", idx), idx |-> idx, t |-> nowv,
        set |-> FALSE]

\* The route do_temp_ref takes for the token tk at the cursor: a reference
\* it resolves itself, or the call of do_reltime_ref with its cursor and
\* int_literal.
temp_route(toks, num, idx, tk, a) ==
  CASE tk.token = sym_day ->
         IF (idx + 2) < num /\ At(toks, idx + 1).token = sym_before
                            /\ At(toks, idx + 2).token = sym_yesterday
           THEN [how |-> "day", days |-> 2, idx |-> idx + 3, lit |-> 0]
           ELSE [how |-> "error", days |-> 0, idx |-> idx, lit |-> 0]
    [] tk.token = sym_yesterday -> [how |-> "day", days |-> 1, idx |-> idx + 1, lit |-> 0]
    [] tk.token = sym_last -> [how |-> "rel", days |-> 0, idx |-> idx, lit |-> 0]
    [] tk.token = sym_none ->
         IF tk.tag = "int"
           THEN IF a.ok THEN [how |-> "rel", days |-> 0, idx |-> idx + 1, lit |-> a.i]
                ELSE [how |-> "notint", days |-> 0, idx |-> idx, lit |-> 0]
           ELSE [how |-> "abs", days |-> 0, idx |-> idx, lit |-> 0]
    [] OTHER -> [how |-> "rel", days |-> 0, idx |-> idx, lit |-> 0]

temp_ref_of(rt, toks, num, tk, end, nowv) ==
  CASE rt.how = "day" ->
         [err |-> NoErr, idx |-> rt.idx, t |-> DayStart(TSub(nowv, Norm(rt.days, 0, 0)), end),
          set |-> TRUE]
    [] rt.how = "error" ->
         [err |-> ErrAt(num, "BEFORE YESTERDAY missing", rt.idx), idx |-> rt.idx, t |-> nowv,
          set |-> FALSE]
    [] rt.how = "notint" ->
         [err |-> ErrAt(num, "not an integer literal", rt.idx), idx |-> rt.idx, t |-> nowv,
          set |-> FALSE]
    [] rt.how = "abs" ->
         abstime_of(ParseDateTime(tk.val), ParseDateOnly(tk.val), ParseTimeOnly(tk.val),
                    num, rt.idx, nowv)
    [] rt.how = "rel" -> do_reltime_ref(toks, num, rt.idx, rt.lit, end, nowv)

\* do_temp_ref: [err, idx, t, set]; set tells whether *t was assigned.
do_temp_ref(toks, num, idx, end, nowv) ==
  IF idx >= num THEN [err |-> OutOfRange(idx), idx |-> idx, t |-> nowv, set |-> FALSE]
  ELSE temp_ref_of(temp_route(toks, num, idx, At(toks, idx), do_int_literal(At(toks, idx))),
                   toks, num, At(toks, idx), end, nowv)

(***************************************************************************)
(* Condition builder.                                                      *)
(***************************************************************************)
ZeroItem == [lexer_sym |-> 0, lexer_tag |-> "", lexer_val |-> ""]

\* do_val_expr: any token is taken as a value.
do_val_expr(tk) == [lexer_sym |-> tk.token, lexer_tag |-> tk.tag, lexer_val |-> tk.val]

\* The entry a list holds between its append and the assignment that fills it
\* (a nil pointer or an empty item).
EmptyOr == [this |-> ZeroItem, left |-> ZeroItem, right |-> ZeroItem, and_list |-> <<>>,
            filled |-> FALSE]
EmptyAnd == [this |-> ZeroItem, left |-> ZeroItem, right |-> ZeroItem, filled |-> FALSE]

\* One predicate <val> = <val>, the code shared by do_or_cond (lines 659-682)
\* and do_and_cond (lines 616-639): [err, idx, left, this, right].
predicate(toks, num, idx) ==
  LET none(e, i) == [err |-> e, idx |-> i, left |-> ZeroItem, this |-> ZeroItem,
                     right |-> ZeroItem]
  IN  IF idx >= num THEN none(OutOfRange(idx), idx)
      ELSE IF (idx + 1) + 2 >= num
        THEN none(ErrAt(num, "MATCHING statement cut short", idx + 1), idx + 1)
      ELSE IF At(toks, idx + 1).token # sym_equal
        THEN none(ErrAt(num, "expected equal (=) sign", idx + 1), idx + 1)
      ELSE [err |-> NoErr, idx |-> idx + 3,
            left |-> do_val_expr(At(toks, idx)),
            this |-> do_val_expr(At(toks, idx + 1)),
            right |-> do_val_expr(At(toks, idx + 2))]

\* do_or_cond up to its AND loop: a new entry at the end of or_list, filled
\* with the predicate when it parses.
or_cond(list, pr) ==
  IF pr.err = NoErr
    THEN Append(list, [this |-> pr.this, left |-> pr.left, right |-> pr.right,
                       and_list |-> <<>>, filled |-> TRUE])
    ELSE Append(list, EmptyOr)

\* do_and_cond gone wrong: the predicate lands in the first or_list entry.
and_cond_first(list, pr) ==
  [list EXCEPT ![1].and_list =
     Append(@, IF pr.err = NoErr
                 THEN [this |-> pr.this, left |-> pr.left, right |-> pr.right, filled |-> TRUE]
                 ELSE EmptyAnd)]

\* do_and_cond: a new entry at the end of the and_list of the last or_list
\* entry, filled with the predicate when it parses.
and_cond(list, pr) ==
  LET or_ofs == Len(list)
      item == IF pr.err = NoErr
                THEN [this |-> pr.this, left |-> pr.left, right |-> pr.right, filled |-> TRUE]
                ELSE EmptyAnd
  IN  [list EXCEPT ![or_ofs].and_list = Append(@, item)]

(***************************************************************************)
(* Field list.                                                             *)
(***************************************************************************)
\* do_derived_field at an in-range cursor: [err, idx, fields, field_aliases].
do_derived_field(toks, num, idx, fs, as) ==
  LET tk == At(toks, idx)
  IN  IF tk.tag \in {"int", "float", "string"}
        THEN [err |-> NoErr, idx |-> idx, fields |-> fs, field_aliases |-> as]
      ELSE IF tk.tag = "ident"
        THEN IF idx + 2 < num /\ At(toks, idx + 1).token = sym_as
               THEN [err |-> NoErr, idx |-> idx + 3, fields |-> Append(fs, tk.val),
                     field_aliases |-> Append(as, At(toks, idx).val)]
               ELSE [err |-> NoErr, idx |-> idx + 1, fields |-> Append(fs, tk.val),
                     field_aliases |-> Append(as, tk.val)]
      ELSE [err |-> ErrAt(num, "unexpected clause in <derived-key>", idx), idx |-> idx,
            fields |-> fs, field_aliases |-> as]

\* One turn of the loop of do_stmt_sublist at an in-range cursor:
\* [err, exit, idx, sublist, fields, field_aliases].
sublist_turn(toks, num, idx, sub, fs, as) ==
  LET tk == At(toks, idx)
      same == [err |-> NoErr, exit |-> FALSE, idx |-> idx, sublist |-> sub,
               fields |-> fs, field_aliases |-> as]
  IN  CASE tk.token = sym_comma ->
             IF sub < 1 \/ (idx + 1 < num /\ At(toks, idx + 1).token # sym_none)
               THEN [same EXCEPT !.err = ErrAt(num, "expected <stmt-sublist>", idx + 1)]
               ELSE [same EXCEPT !.idx = idx + 1]
        [] tk.token \in {sym_matching, sym_since, sym_between} ->
             [same EXCEPT !.exit = TRUE]
        [] tk.token = sym_none ->
             LET f == do_derived_field(toks, num, idx, fs, as)
             IN  [err |-> f.err, exit |-> FALSE, idx |-> f.idx, sublist |-> sub + 1,
                  fields |-> f.fields, field_aliases |-> f.field_aliases]
        [] OTHER ->
             IF sub < 1
               THEN [same EXCEPT !.err = ErrAt(num, "unexpected clause in <stmt-sublist>", idx)]
               ELSE same

(***************************************************************************)
(* parser(): the split at the first pipe token.                            *)
(***************************************************************************)
HasPipe(toks) == \E i \in 1..Len(toks) : toks[i].token = sym_pipe

\* The Go index of the first pipe token.
FirstPipe(toks) == (CHOOSE i \in 1..Len(toks) :
                      /\ toks[i].token = sym_pipe
                      /\ \A j \in 1..(i - 1) : toks[j].token # sym_pipe) - 1

\* The split gone wrong: cmd2 = cmd[i:] keeps the pipe token.
SubCommands_from_pipe(toks, i) == SubSeq(toks, i + 1, Len(toks))

\* cmd2 = cmd[i+1:]
SubCommands(toks, i) == SubSeq(toks, i + 2, Len(toks))

\* cmd = cmd[:i-1]
PrimaryCommand(toks, i) == SubSeq(toks, 1, i - 1)

\* do_temp_cond without its swap.
SwapRange_never(from, to) == [from |-> from, to |-> to]

\* The swap that ends do_temp_cond.
SwapRange(from, to) ==
  IF TLess(to, from) THEN [from |-> to, to |-> from] ELSE [from |-> from, to |-> to]

(***************************************************************************)
(* Lexer.  A string is a sequence of characters, a character a string of   *)
(* length one.  Positions are 1-based here; stmt_pos and the offsets kept  *)
(* in at and src count from 0 as in the Go code.                          *)
(***************************************************************************)
\* (?i): letters compare by their upper case.
Fold ==
  [a |-> "A", b |-> "B", c |-> "C", d |-> "D", e |-> "E", f |-> "F", g |-> "G", h |-> "H",
   i |-> "I", j |-> "J", k |-> "K", l |-> "L", m |-> "M", n |-> "N", o |-> "O", p |-> "P",
   q |-> "Q", r |-> "R", s |-> "S", t |-> "T", u |-> "U", v |-> "V", w |-> "W", x |-> "X",
   y |-> "Y", z |-> "Z"]
ToUpper(c) == IF c \in DOMAIN Fold THEN Fold[c] ELSE c

\* The character classes of the regexes: \d, [eE], [-+], [a-zA-Z_],
\* [a-zA-Z_.@$], \w (for \b); the white space strings.TrimSpace cuts and the
\* cutset of strings.Trim(result, "[]").
InClass(cls, c) ==
  LET letter == c \in DOMAIN Fold \/ \E k \in DOMAIN Fold : Fold[k] = c
      digit == c \in {"0", "1", "2", "3", "4", "5", "6", "7", "8", "9"}
  IN  CASE cls = "digit" -> digit
        [] cls = "exp" -> c \in {"e", "E"}
        [] cls = "sign" -> c \in {"-", "+"}
        [] cls = "identstart" -> letter \/ c = "_"
        [] cls = "ident" -> letter \/ c \in {"_", ".", "@", "$"}
        [] cls = "word" -> letter \/ digit \/ c = "_"
        [] cls = "space" -> c \in {" ", "\t", "\n", "\r"}
        [] cls = "bracket" -> c \in {"[", "]"}

\* The number of consecutive characters of a class from position i on.
RECURSIVE Run(_, _, _)
Run(cls, s, i) == IF i <= Len(s) /\ InClass(cls, s[i]) THEN 1 + Run(cls, s, i + 1) ELSE 0

Pick(s, idx) == SubSeq([k \in 1..Len(idx) |-> s[idx[k]]], 1, Len(idx))

\* strings.Trim and strings.TrimSpace, as the positions they keep.
Trim(cls, s) ==
  LET keep == {i \in 1..Len(s) : ~InClass(cls, s[i])}
      first == CHOOSE i \in keep : \A j \in keep : i <= j
      last == CHOOSE i \in keep : \A j \in keep : j <= i
  IN  IF keep = {} THEN <<>> ELSE [k \in 1..(last - first + 1) |-> first + k - 1]
TrimSpace(s) == Trim("space", s)

\* lexer_pre_table.  "//{.}\n" and `/\*{.|\*}\*/` hold no valid repetition,
\* so their braces are literal characters and the second one is the
\* alternation of /*{. and *}*/; a "." here is any character but a newline.
lexer_pre_table ==
  << [alts |-> << <<"/", "/", "{", ".", "}", "\n">> >>],
     [alts |-> << <<"/", "*", "{", ".">>, <<"*", "}", "*", "/">> >>],
     [alts |-> << <<"\t">>, <<"\r">>, <<"\n">> >>] >>

\* The length of the match of pre-table entry p at position i of s, 0 if none.
PreMatchLen(p, s, i) ==
  LET alts == lexer_pre_table[p].alts
      hit(k) == /\ i + Len(alts[k]) - 1 <= Len(s)
                /\ \A j \in 1..Len(alts[k]) :
                     IF alts[k][j] = "." THEN s[i + j - 1] # "\n" ELSE s[i + j - 1] = alts[k][j]
  IN  IF \E k \in 1..Len(alts) : hit(k)
        THEN Len(alts[CHOOSE k \in 1..Len(alts) : hit(k) /\ \A j \in 1..(k - 1) : ~hit(j)])
        ELSE 0

\* The matches a ReplaceAll cuts out are the leftmost ones that do not
\* overlap: a match starting at i is taken unless a taken match that started
\* before covers i.
RECURSIVE PreTaken(_, _, _)
PreTaken(p, s, i) ==
  /\ PreMatchLen(p, s, i) > 0
  /\ \A j \in 1..(i - 1) : ~(PreMatchLen(p, s, j) > i - j /\ PreTaken(p, s, j))

\* compiled.ReplaceAllLiteralString(s, " ") of entry p on the text t = [s, at];
\* at holds for every character its offset in the query, a replacement blank
\* taking the offset of its match.
PreBuild(p, t, u) ==
  [s |-> SubSeq([k \in 1..Len(u) |-> IF PreMatchLen(p, t.s, u[k]) > 0 THEN " " ELSE t.s[u[k]]],
                 1, Len(u)),
   at |-> Pick(t.at, u)]
PreReplace(p, t) ==
  PreBuild(p, t, SelectSeq([k \in 1..Len(t.s) |-> k],
                           LAMBDA i : ~\E j \in 1..(i - 1) :
                                         PreMatchLen(p, t.s, j) > i - j /\ PreTaken(p, t.s, j)))

\* The text the token loop starts from: the pre-table applied in order, then
\* strings.TrimSpace.
Trimmed(t, idx) == [s |-> Pick(t.s, idx), at |-> Pick(t.at, idx)]
Prepared(query) ==
  Trimmed(PreReplace(3, PreReplace(2, PreReplace(1,
            [s |-> query, at |-> SubSeq([k \in 1..Len(query) |-> k - 1], 1, Len(query))]))),
          TrimSpace(PreReplace(3, PreReplace(2, PreReplace(1,
            [s |-> query, at |-> SubSeq([k \in 1..Len(query) |-> k - 1], 1, Len(query))]))).s))

\* lexer_regex_table, in its order.  An entry of kind "words" is ^(w1|w2|...)
\* with the alternatives in order, b telling a closing \b; every entry with
\* letters carries (?i).  The other kinds are the regexes of "string",
\* "ident", "int", "float" and "equal", matched by MatchLen below.
lexer_regex_table ==
  << [tag |-> "command", kind |-> "words", b |-> TRUE,
      words |-> << <<"F", "I", "N", "D">> >>],
     [tag |-> "cmdspec", kind |-> "words", b |-> TRUE,
      words |-> << <<"A", "L", "L">> >>],
     [tag |-> "command2", kind |-> "words", b |-> TRUE,
      words |-> << <<"S", "O", "R", "T">>, <<"G", "R", "O", "U", "P">>,
      <<"D", "I", "S", "T", "I", "N", "C", "T">> >>],
     [tag |-> "pipe", kind |-> "words", b |-> FALSE,
      words |-> << <<"|">> >>],
     [tag |-> "condition", kind |-> "words", b |-> TRUE,
      words |-> << <<"M", "A", "T", "C", "H", "I", "N", "G">> >>],
     [tag |-> "temporal", kind |-> "words", b |-> TRUE,
      words |-> << <<"S", "I", "N", "C", "E">>, <<"B", "E", "T", "W", "E", "E", "N">> >>],
     [tag |-> "relative", kind |-> "words", b |-> TRUE,
      words |-> << <<"Y", "E", "S", "T", "E", "R", "D", "A", "Y">>, <<"B", "E", "F", "O", "R", "E">>,
      <<"L", "A", "S", "T">>, <<"P", "R", "E", "V", "I", "O", "U", "S">>, <<"A", "G", "O">>,
      <<"F", "O", "R", "E", "V", "E", "R">> >>],
     [tag |-> "clock", kind |-> "words", b |-> TRUE,
      words |-> << <<"S", "E", "C", "O", "N", "D">>, <<"M", "I", "N", "U", "T", "E">>, <<"H", "O", "U", "R">> >>],
     [tag |-> "clocks", kind |-> "words", b |-> TRUE,
      words |-> << <<"S", "E", "C", "O", "N", "D", "S">>, <<"M", "I", "N", "U", "T", "E", "S">>,
      <<"H", "O", "U", "R", "S">> >>],
     [tag |-> "calendar", kind |-> "words", b |-> TRUE,
      words |-> << <<"D", "A", "Y">>, <<"W", "E", "E", "K">>,
      <<"F", "O", "R", "T", "N", "I", "G", "H", "T">>, <<"M", "O", "N", "T", "H">>,
      <<"Q", "U", "A", "R", "T", "E", "R">>, <<"Y", "E", "A", "R">>,
      <<"C", "E", "N", "T", "U", "R", "Y">> >>],
     [tag |-> "calendars", kind |-> "words", b |-> TRUE,
      words |-> << <<"D", "A", "Y", "S">>, <<"W", "E", "E", "K", "S">>,
      <<"F", "O", "R", "T", "N", "I", "G", "H", "T", "S">>, <<"M", "O", "N", "T", "H", "S">>,
      <<"Q", "U", "A", "R", "T", "E", "R", "S">>, <<"Y", "E", "A", "R", "S">>,
      <<"C", "E", "N", "T", "U", "R", "I", "E", "S">> >>],
     [tag |-> "weekday", kind |-> "words", b |-> TRUE,
      words |-> << <<"M", "O", "N", "D", "A", "Y">>, <<"T", "U", "E", "S", "D", "A", "Y">>,
      <<"W", "E", "D", "N", "E", "S", "D", "A", "Y">>,
      <<"T", "H", "U", "R", "S", "D", "A", "Y">>, <<"F", "R", "I", "D", "A", "Y">>,
      <<"S", "A", "T", "U", "R", "D", "A", "Y">>, <<"S", "U", "N", "D", "A", "Y">> >>],
     [tag |-> "weekdays", kind |-> "words", b |-> TRUE,
      words |-> << <<"M", "O", "N", "D", "A", "Y", "S">>, <<"T", "U", "E", "S", "D", "A", "Y", "S">>,
      <<"W", "E", "D", "N", "E", "S", "D", "A", "Y", "S">>,
      <<"T", "H", "U", "R", "S", "D", "A", "Y", "S">>, <<"F", "R", "I", "D", "A", "Y", "S">>,
      <<"S", "A", "T", "U", "R", "D", "A", "Y", "S">>, <<"S", "U", "N", "D", "A", "Y", "S">> >>],
     [tag |-> "mon", kind |-> "words", b |-> FALSE,
      words |-> << <<"J", "A", "N">>, <<"F", "E", "B">>, <<"M", "A", "R">>, <<"A", "P", "R">>,
      <<"M", "A", "Y">>, <<"J", "U", "N">>, <<"J", "U", "L">>, <<"A", "U", "G">>,
      <<"S", "E", "P">>, <<"O", "C", "T">>, <<"N", "O", "V">>, <<"D", "E", "C">> >>],
     [tag |-> "months", kind |-> "words", b |-> FALSE,
      words |-> << <<"J", "A", "N", "U", "A", "R", "Y">>, <<"F", "E", "B", "R", "U", "A", "R", "Y">>,
      <<"M", "A", "R", "C", "H">>, <<"A", "P", "R", "I", "L">>, <<"M", "A", "Y">>,
      <<"J", "U", "N", "E">>, <<"J", "U", "L", "Y">>, <<"A", "U", "G", "U", "S", "T">>,
      <<"S", "E", "P", "T", "E", "M", "B", "E", "R">>, <<"O", "C", "T", "O", "B", "E", "R">>,
      <<"N", "O", "V", "E", "M", "B", "E", "R">>, <<"D", "E", "C", "E", "M", "B", "E", "R">> >>],
     [tag |-> "string", kind |-> "string", b |-> FALSE, words |-> <<>>],
     [tag |-> "ident", kind |-> "ident", b |-> FALSE, words |-> <<>>],
     [tag |-> "int", kind |-> "int", b |-> FALSE, words |-> <<>>],
     [tag |-> "float", kind |-> "float", b |-> FALSE, words |-> <<>>],
     [tag |-> "comma", kind |-> "words", b |-> FALSE,
      words |-> << <<",">> >>],
     [tag |-> "lparen", kind |-> "words", b |-> FALSE,
      words |-> << <<"(">> >>],
     [tag |-> "rparen", kind |-> "words", b |-> FALSE,
      words |-> << <<")">> >>],
     [tag |-> "minus", kind |-> "words", b |-> FALSE,
      words |-> << <<"-">> >>],
     [tag |-> "plus", kind |-> "words", b |-> FALSE,
      words |-> << <<"+">> >>],
     [tag |-> "equal", kind |-> "equal", b |-> FALSE, words |-> <<>>],
     [tag |-> "not_equal", kind |-> "words", b |-> FALSE,
      words |-> << <<"!", "=">>, <<"<", ">">> >>],
     [tag |-> "mul", kind |-> "words", b |-> FALSE,
      words |-> << <<"*">> >>],
     [tag |-> "div", kind |-> "words", b |-> TRUE,
      words |-> << <<"/">>, <<"D", "I", "V">> >>],
     [tag |-> "mod", kind |-> "words", b |-> TRUE,
      words |-> << <<"%">>, <<"M", "O", "D">> >>],
     [tag |-> "less_equal", kind |-> "words", b |-> FALSE,
      words |-> << <<"<", "=">> >>],
     [tag |-> "greater_equal", kind |-> "words", b |-> FALSE,
      words |-> << <<">", "=">> >>],
     [tag |-> "less", kind |-> "words", b |-> FALSE,
      words |-> << <<"<">> >>],
     [tag |-> "greater", kind |-> "words", b |-> FALSE,
      words |-> << <<">">> >>],
     [tag |-> "and", kind |-> "words", b |-> TRUE,
      words |-> << <<"A", "N", "D">> >>],
     [tag |-> "or", kind |-> "words", b |-> TRUE,
      words |-> << <<"O", "R">> >>],
     [tag |-> "not", kind |-> "words", b |-> TRUE,
      words |-> << <<"!">>, <<"N", "O", "T">> >>],
     [tag |-> "like", kind |-> "words", b |-> TRUE,
      words |-> << <<"L", "I", "K", "E">> >>] >>

\* lexer_symbol_table entry by entry, the keys as character sequences.
symbol_entries ==
  << [key |-> <<"F", "I", "N", "D">>, sym |-> sym_find],
     [key |-> <<"S", "O", "R", "T">>, sym |-> sym_sort],
     [key |-> <<"G", "R", "O", "U", "P">>, sym |-> sym_group],
     [key |-> <<"D", "I", "S", "T", "I", "N", "C", "T">>, sym |-> sym_distinct],
     [key |-> <<"A", "L", "L">>, sym |-> sym_all],
     [key |-> <<"|">>, sym |-> sym_pipe],
     [key |-> <<"M", "A", "T", "C", "H", "I", "N", "G">>, sym |-> sym_matching],
     [key |-> <<"S", "I", "N", "C", "E">>, sym |-> sym_since],
     [key |-> <<"B", "E", "T", "W", "E", "E", "N">>, sym |-> sym_between],
     [key |-> <<"Y", "E", "S", "T", "E", "R", "D", "A", "Y">>, sym |-> sym_yesterday],
     [key |-> <<"B", "E", "F", "O", "R", "E">>, sym |-> sym_before],
     [key |-> <<"L", "A", "S", "T">>, sym |-> sym_last],
     [key |-> <<"P", "R", "E", "V", "I", "O", "U", "S">>, sym |-> sym_previous],
     [key |-> <<"A", "G", "O">>, sym |-> sym_ago],
     [key |-> <<"F", "O", "R", "E", "V", "E", "R">>, sym |-> sym_between],
     [key |-> <<"S", "E", "C", "O", "N", "D">>, sym |-> sym_second],
     [key |-> <<"M", "I", "N", "U", "T", "E">>, sym |-> sym_minute],
     [key |-> <<"H", "O", "U", "R">>, sym |-> sym_hour],
     [key |-> <<"S", "E", "C", "O", "N", "D", "S">>, sym |-> sym_second],
     [key |-> <<"M", "I", "N", "U", "T", "E", "S">>, sym |-> sym_minute],
     [key |-> <<"H", "O", "U", "R", "S">>, sym |-> sym_hour],
     [key |-> <<"D", "A", "Y">>, sym |-> sym_day],
     [key |-> <<"W", "E", "E", "K">>, sym |-> sym_week],
     [key |-> <<"F", "O", "R", "T", "N", "I", "G", "H", "T">>, sym |-> sym_fortnight],
     [key |-> <<"M", "O", "N", "T", "H">>, sym |-> sym_month],
     [key |-> <<"D", "A", "Y", "S">>, sym |-> sym_day],
     [key |-> <<"W", "E", "E", "K", "S">>, sym |-> sym_week],
     [key |-> <<"F", "O", "R", "T", "N", "I", "G", "H", "T", "S">>, sym |-> sym_fortnight],
     [key |-> <<"M", "O", "N", "T", "H", "S">>, sym |-> sym_month],
     [key |-> <<"Q", "U", "A", "R", "T", "E", "R">>, sym |-> sym_quarter],
     [key |-> <<"Y", "E", "A", "R">>, sym |-> sym_year],
     [key |-> <<"C", "E", "N", "T", "U", "R", "Y">>, sym |-> sym_century],
     [key |-> <<"Q", "U", "A", "R", "T", "E", "R", "S">>, sym |-> sym_quarter],
     [key |-> <<"Y", "E", "A", "R", "S">>, sym |-> sym_year],
     [key |-> <<"C", "E", "N", "T", "U", "R", "I", "E", "S">>, sym |-> sym_century],
     [key |-> <<"M", "O", "N", "D", "A", "Y">>, sym |-> sym_monday],
     [key |-> <<"T", "U", "E", "S", "D", "A", "Y">>, sym |-> sym_tuesday],
     [key |-> <<"W", "E", "D", "N", "E", "S", "D", "A", "Y">>, sym |-> sym_wednesday],
     [key |-> <<"M", "O", "N", "D", "A", "Y", "S">>, sym |-> sym_monday],
     [key |-> <<"T", "U", "E", "S", "D", "A", "Y", "S">>, sym |-> sym_tuesday],
     [key |-> <<"W", "E", "D", "N", "E", "S", "D", "A", "Y", "S">>, sym |-> sym_wednesday],
     [key |-> <<"T", "H", "U", "R", "S", "D", "A", "Y">>, sym |-> sym_thursday],
     [key |-> <<"F", "R", "I", "D", "A", "Y">>, sym |-> sym_friday],
     [key |-> <<"S", "A", "T", "U", "R", "D", "A", "Y">>, sym |-> sym_saturday],
     [key |-> <<"S", "U", "N", "D", "A", "Y">>, sym |-> sym_sunday],
     [key |-> <<"T", "H", "U", "R", "S", "D", "A", "Y", "S">>, sym |-> sym_thursday],
     [key |-> <<"F", "R", "I", "D", "A", "Y", "S">>, sym |-> sym_friday],
     [key |-> <<"S", "A", "T", "U", "R", "D", "A", "Y", "S">>, sym |-> sym_saturday],
     [key |-> <<"S", "U", "N", "D", "A", "Y", "S">>, sym |-> sym_sunday],
     [key |-> <<"J", "A", "N">>, sym |-> sym_january],
     [key |-> <<"F", "E", "B">>, sym |-> sym_february],
     [key |-> <<"M", "A", "R">>, sym |-> sym_march],
     [key |-> <<"A", "P", "R">>, sym |-> sym_april],
     [key |-> <<"M", "A", "Y">>, sym |-> sym_may],
     [key |-> <<"J", "U", "N">>, sym |-> sym_june],
     [key |-> <<"J", "U", "L">>, sym |-> sym_july],
     [key |-> <<"A", "U", "G">>, sym |-> sym_august],
     [key |-> <<"S", "E", "P">>, sym |-> sym_september],
     [key |-> <<"O", "C", "T">>, sym |-> sym_october],
     [key |-> <<"N", "O", "V">>, sym |-> sym_november],
     [key |-> <<"D", "E", "C">>, sym |-> sym_december],
     [key |-> <<"J", "A", "N", "U", "A", "R", "Y">>, sym |-> sym_january],
     [key |-> <<"F", "E", "B", "U", "A", "R", "Y">>, sym |-> sym_february],
     [key |-> <<"M", "A", "R", "C", "H">>, sym |-> sym_march],
     [key |-> <<"A", "P", "R", "I", "L">>, sym |-> sym_april],
     [key |-> <<"J", "U", "N", "E">>, sym |-> sym_june],
     [key |-> <<"J", "U", "L", "Y">>, sym |-> sym_july],
     [key |-> <<"A", "U", "G", "U", "S", "T">>, sym |-> sym_august],
     [key |-> <<"S", "E", "P", "T", "E", "M", "B", "E", "R">>, sym |-> sym_september],
     [key |-> <<"O", "C", "T", "O", "B", "E", "R">>, sym |-> sym_october],
     [key |-> <<"N", "O", "V", "E", "M", "B", "E", "R">>, sym |-> sym_november],
     [key |-> <<"D", "E", "C", "E", "M", "B", "E", "R">>, sym |-> sym_december],
     [key |-> <<",">>, sym |-> sym_comma],
     [key |-> <<"(">>, sym |-> sym_lparen],
     [key |-> <<")">>, sym |-> sym_rparen],
     [key |-> <<"-">>, sym |-> sym_minus],
     [key |-> <<"+">>, sym |-> sym_plus],
     [key |-> <<"=">>, sym |-> sym_equal],
     [key |-> <<"<", ">">>, sym |-> sym_not_equal],
     [key |-> <<"!", "=">>, sym |-> sym_not_equal],
     [key |-> <<"*">>, sym |-> sym_mul],
     [key |-> <<"/">>, sym |-> sym_div],
     [key |-> <<"D", "I", "V">>, sym |-> sym_div],
     [key |-> <<"%">>, sym |-> sym_mod],
     [key |-> <<"M", "O", "D">>, sym |-> sym_mod],
     [key |-> <<"<", "=">>, sym |-> sym_less_equal],
     [key |-> <<">", "=">>, sym |-> sym_greater_equal],
     [key |-> <<"<">>, sym |-> sym_less],
     [key |-> <<">">>, sym |-> sym_greater],
     [key |-> <<"A", "N", "D">>, sym |-> sym_and],
     [key |-> <<"O", "R">>, sym |-> sym_or],
     [key |-> <<"N", "O", "T">>, sym |-> sym_not],
     [key |-> <<"!">>, sym |-> sym_not],
     [key |-> <<"L", "I", "K", "E">>, sym |-> sym_like] >>

\* ^(w1|w2|...)\b : the first alternative that matches at the start; \b after
\* position n holds when exactly one of s[n] and s[n+1] is a word character
\* (the end of the text counts as none).
WordsLen(words, b, s) ==
  LET boundary(n) == InClass("word", s[n]) # (n < Len(s) /\ InClass("word", s[n + 1]))
      hit(k) == /\ Len(words[k]) <= Len(s)
                /\ \A j \in 1..Len(words[k]) : ToUpper(s[j]) = words[k][j]
                /\ b => boundary(Len(words[k]))
  IN  IF \E k \in 1..Len(words) : hit(k)
        THEN Len(words[CHOOSE k \in 1..Len(words) : hit(k) /\ \A j \in 1..(k - 1) : ~hit(j)])
        ELSE 0

\* ^('[^']*'|"[^"]*")
StringLen(s) ==
  IF s[1] \in {"'", "\""} /\ \E j \in 2..Len(s) : s[j] = s[1]
    THEN CHOOSE j \in 2..Len(s) : s[j] = s[1] /\ \A k \in 2..(j - 1) : s[k] # s[1]
    ELSE 0

\* ^([a-zA-Z_][a-zA-Z_.@$]*)|(\[[a-zA-Z_][a-zA-Z_.@$]*)\] : the first
\* alternative is anchored at the start, the second one is not.
IdentLen(s, i) ==
  LET run == Run("ident", s, i + 1)
  IN  IF i = 1 /\ InClass("identstart", s[1]) THEN Run("ident", s, 1)
      ELSE IF /\ s[i] = "[" /\ i < Len(s) /\ InClass("identstart", s[i + 1])
              /\ i + run + 1 <= Len(s) /\ s[i + run + 1] = "]"
             THEN run + 2
      ELSE 0

\* ^(\d+([eE]+?\d+)?)
IntLen(s) ==
  LET d == Run("digit", s, 1)
      e == Run("exp", s, d + 1)
      m == Run("digit", s, d + e + 1)
  IN  IF d > 0 /\ e > 0 /\ m > 0 THEN d + e + m ELSE d

\* ^(\d*\.?\d+([eE][-+]?\d+)?)
FloatLen(s) ==
  LET d == Run("digit", s, 1)
      f == Run("digit", s, d + 2)
      base == IF d < Len(s) /\ s[d + 1] = "." /\ f > 0 THEN d + 1 + f ELSE d
      sign == IF base + 1 < Len(s) /\ InClass("sign", s[base + 2]) THEN 1 ELSE 0
      m == Run("digit", s, base + 2 + sign)
  IN  IF base > 0 /\ base < Len(s) /\ InClass("exp", s[base + 1]) /\ m > 0
        THEN base + 1 + sign + m
        ELSE base

\* ^=|== : the first alternative is anchored at the start, the second is not.
EqualLen(s, i) ==
  IF i = 1 /\ s[1] = "=" THEN 1
  ELSE IF i < Len(s) /\ s[i] = "=" /\ s[i + 1] = "=" THEN 2
  ELSE 0

\* The length of the match of entry r of lexer_regex_table that starts at
\* position i of s, 0 if there is none.
Unanchored(r) == lexer_regex_table[r].kind \in {"ident", "equal"}
MatchLen(r, s, i) ==
  CASE lexer_regex_table[r].kind = "ident" -> IdentLen(s, i)
    [] lexer_regex_table[r].kind = "equal" -> EqualLen(s, i)
    [] i # 1 -> 0
    [] lexer_regex_table[r].kind = "words" ->
         WordsLen(lexer_regex_table[r].words, lexer_regex_table[r].b, s)
    [] lexer_regex_table[r].kind = "string" -> StringLen(s)
    [] lexer_regex_table[r].kind = "int" -> IntLen(s)
    [] lexer_regex_table[r].kind = "float" -> FloatLen(s)

\* compiled.FindString(s): the position of the leftmost match, 0 if none.
MatchAt(r, s) ==
  IF ~Unanchored(r) THEN (IF MatchLen(r, s, 1) > 0 THEN 1 ELSE 0)
  ELSE IF \E i \in 1..Len(s) : MatchLen(r, s, i) > 0
         THEN CHOOSE i \in 1..Len(s) :
                MatchLen(r, s, i) > 0 /\ \A j \in 1..(i - 1) : MatchLen(r, s, j) = 0
  ELSE 0

\* The first entry from r on, in table order, whose FindString is not "";
\* 0 if there is none.
RECURSIVE FirstRule(_, _)
FirstRule(s, r) ==
  IF r > Len(lexer_regex_table) THEN 0
  ELSE IF MatchAt(r, s) > 0 THEN r
  ELSE FirstRule(s, r + 1)

\* compiled.ReplaceAllString(s, ""): the positions of s that are kept when
\* every match is cut out, the matches being the leftmost ones that do not
\* overlap.  An anchored entry has at most the match at position 1.
RECURSIVE Taken(_, _, _)
Taken(r, s, i) ==
  /\ MatchLen(r, s, i) > 0
  /\ \A j \in 1..(i - 1) : ~(MatchLen(r, s, j) > i - j /\ Taken(r, s, j))
Kept(r, s) ==
  IF Unanchored(r)
    THEN SelectSeq([k \in 1..Len(s) |-> k],
                   LAMBDA i : ~\E j \in 1..i : MatchLen(r, s, j) > i - j /\ Taken(r, s, j))
    ELSE [k \in 1..(Len(s) - MatchLen(r, s, 1)) |-> MatchLen(r, s, 1) + k]

\* token, exists := lexer_symbol_table[result]
SymbolOf(result) ==
  IF \E k \in 1..Len(symbol_entries) : symbol_entries[k].key = result
    THEN [exists |-> TRUE,
          token |-> symbol_entries[CHOOSE k \in 1..Len(symbol_entries) :
                                     symbol_entries[k].key = result].sym]
    ELSE [exists |-> FALSE, token |-> sym_none]

\* The tags whose result is not looked up in lexer_symbol_table.
LiteralTags == {"string", "ident", "int", "float"}

\* newtoken.val
ValOf(tag, result) ==
  CASE tag = "string" -> SubSeq(result, 2, Len(result) - 1)
    [] tag = "ident" -> Pick(result, Trim("bracket", result))
    [] OTHER -> result

NoLexErr == [kind |-> "nil", text |-> <<>>]

\* One turn of the token loop on a run L (its s, at, tokens, stmt_pos and
\* err).  A token keeps in src the offset in the query of the first character
\* of its match.
Advance(L, tok, idx) ==
  [L EXCEPT !.s = Pick(L.s, idx), !.at = Pick(L.at, idx), !.tokens = Append(L.tokens, tok),
            !.stmt_pos = L.stmt_pos + (Len(L.s) - Len(idx))]
Emit(L, tag, i, result, kept) ==
  IF tag \notin LiteralTags /\ ~SymbolOf(result).exists
    THEN [L EXCEPT !.tokens = <<>>, !.err = [kind |-> "unknown_symbol", text |-> result]]
    ELSE Advance(L,
                 [tag |-> tag,
                  token |-> IF tag \in LiteralTags THEN sym_none ELSE SymbolOf(result).token,
                  val |-> ValOf(tag, result), stmt_pos |-> L.stmt_pos, src |-> L.at[i]],
                 Pick(kept, TrimSpace(Pick(L.s, kept))))
Found(L, r, i) ==
  Emit(L, lexer_regex_table[r].tag, i, SubSeq(L.s, i, i + MatchLen(r, L.s, i) - 1), Kept(r, L.s))
Tried(L, r) ==
  IF r = 0 THEN [L EXCEPT !.tokens = <<>>, !.err = [kind |-> "no_match", text |-> L.s]]
  ELSE Found(L, r, MatchAt(r, L.s))
LexTurn(L) == Tried(L, FirstRule(L.s, 1))

\* lexer() up to the token loop, on the run L.
Entered(L, t) ==
  [L EXCEPT !.s = t.s, !.at = t.at, !.tokens = <<>>, !.stmt_pos = 0, !.err = NoLexErr]
LexEnter(L) == Entered(L, Prepared(L.query))

\* lexer() as a whole: what it returns for a query.
RECURSIVE LexLoop(_)
LexLoop(L) == IF L.s = <<>> \/ L.err # NoLexErr THEN L ELSE LexLoop(LexTurn(L))
lexer(query) ==
  LexLoop(LexEnter([query |-> query, s |-> <<>>, at |-> <<>>, tokens |-> <<>>,
                    stmt_pos |-> 0, err |-> NoLexErr]))

(***************************************************************************)
(* Lexer runs.  A run is one call of lexer(): its query, the locals s,     *)
(* tokens and stmt_pos, the error it returns, and where it stands.  at     *)
(* holds for every character of s its offset in the query.  pass counts    *)
(* how often the returned tokens were put together again and lexed, first  *)
(* keeps the tokens of the first pass.                                     *)
(***************************************************************************)
MaxRelex == 1
Runs == {1, 2}

\* The statements TestLexer lexes (2 and 3) and further queries.
Queries ==
  << \* 1: FIND src_ip SINCE LAST HOUR
     <<"F", "I", "N", "D", " ", "s", "r", "c", "_", "i", "p", " ", "S", "I", "N", "C", "E", " ",
       "L", "A", "S", "T", " ", "H", "O", "U", "R">>,
     \* 2: FIND dest_ip MATCHING src_ip='192.168.0.1' AND dest_port=80 SINCE YESTERDAY
     <<"F", "I", "N", "D", " ", "d", "e", "s", "t", "_", "i", "p", " ", "M", "A", "T", "C", "H",
       "I", "N", "G", " ", "s", "r", "c", "_", "i", "p", "=", "'", "1", "9", "2", ".", "1", "6",
       "8", ".", "0", ".", "1", "'", " ", "A", "N", "D", " ", "d", "e", "s", "t", "_", "p", "o",
       "r", "t", "=", "8", "0", " ", "S", "I", "N", "C", "E", " ", "Y", "E", "S", "T", "E", "R",
       "D", "A", "Y">>,
     \* 3: FIND dest_ip MATCHING src_ip='192.168.0.1' BETWEEN 3 AND 6 MONTHS AGO | SORT dest_ip
     <<"F", "I", "N", "D", " ", "d", "e", "s", "t", "_", "i", "p", " ", "M", "A", "T", "C", "H",
       "I", "N", "G", " ", "s", "r", "c", "_", "i", "p", "=", "'", "1", "9", "2", ".", "1", "6",
       "8", ".", "0", ".", "1", "'", " ", "B", "E", "T", "W", "E", "E", "N", " ", "3", " ", "A",
       "N", "D", " ", "6", " ", "M", "O", "N", "T", "H", "S", " ", "A", "G", "O", " ", "|", " ",
       "S", "O", "R", "T", " ", "d", "e", "s", "t", "_", "i", "p">>,
     \* 4: the empty query
     <<>>,
     \* 5: two blanks
     <<" ", " ">>,
     \* 6:  FIND a
     <<" ", "F", "I", "N", "D", " ", "a">>,
     \* 7: FIND<tab>a<newline>SINCE YESTERDAY
     <<"F", "I", "N", "D", "\t", "a", "\n", "S", "I", "N", "C", "E", " ", "Y", "E", "S", "T",
       "E", "R", "D", "A", "Y">>,
     \* 8: find a
     <<"f", "i", "n", "d", " ", "a">>,
     \* 9: FIND mark
     <<"F", "I", "N", "D", " ", "m", "a", "r", "k">>,
     \* 10: FIND MARKET
     <<"F", "I", "N", "D", " ", "M", "A", "R", "K", "E", "T">>,
     \* 11: FIND a, [b]
     <<"F", "I", "N", "D", " ", "a", ",", " ", "[", "b", "]">>,
     \* 12: , [b]
     <<",", " ", "[", "b", "]">>,
     \* 13: FIND [a] , [b]
     <<"F", "I", "N", "D", " ", "[", "a", "]", " ", ",", " ", "[", "b", "]">>,
     \* 14: a = b == c
     <<"a", " ", "=", " ", "b", " ", "=", "=", " ", "c">>,
     \* 15: # ==
     <<"#", " ", "=", "=">>,
     \* 16: FIND a == b
     <<"F", "I", "N", "D", " ", "a", " ", "=", "=", " ", "b">>,
     \* 17: FIND [SINCE] SINCE YESTERDAY
     <<"F", "I", "N", "D", " ", "[", "S", "I", "N", "C", "E", "]", " ", "S", "I", "N", "C", "E",
       " ", "Y", "E", "S", "T", "E", "R", "D", "A", "Y">>,
     \* 18: a '[[x]x]'
     <<"a", " ", "'", "[", "[", "x", "]", "x", "]", "'">>,
     \* 19: [[a]]
     <<"[", "[", "a", "]", "]">>,
     \* 20: SINCE LAST APRIL
     <<"S", "I", "N", "C", "E", " ", "L", "A", "S", "T", " ", "A", "P", "R", "I", "L">>,
     \* 21: 1e5 .5 12 1.5
     <<"1", "e", "5", " ", ".", "5", " ", "1", "2", " ", "1", ".", "5">>,
     \* 22: a # b
     <<"a", " ", "#", " ", "b">>,
     \* 23: 'unterminated
     <<"'", "u", "n", "t", "e", "r", "m", "i", "n", "a", "t", "e", "d">>,
     \* 24: FIND ALL SINCE FOREVER
     <<"F", "I", "N", "D", " ", "A", "L", "L", " ", "S", "I", "N", "C", "E", " ", "F", "O", "R",
       "E", "V", "E", "R">>,
     \* 25: x / 2
     <<"x", " ", "/", " ", "2">>,
     \* 26: x /2
     <<"x", " ", "/", "2">>,
     \* 27: NOT a LIKE b OR c
     <<"N", "O", "T", " ", "a", " ", "L", "I", "K", "E", " ", "b", " ", "O", "R", " ", "c">>,
     \* 28: (a)
     <<"(", "a", ")">>,
     \* 29: FIND a, the block comment pattern around x, b
     <<"F", "I", "N", "D", " ", "a", " ", "/", "*", "{", "x", "*", "}", "*", "/", " ", "b">>,
     \* 30: FIND a //{x}<newline>, b
     <<"F", "I", "N", "D", " ", "a", " ", "/", "/", "{", "x", "}", "\n", ",", " ", "b">>,
     \* 31: a "q" 'r'
     <<"a", " ", "\"", "q", "\"", " ", "'", "r", "'">>,
     \* 32: a<=b<>c
     <<"a", "<", "=", "b", "<", ">", "c">>,
     \* 33: f+g-h, a star, i %j
     <<"f", "+", "g", "-", "h", "*", "i", " ", "%", "j">>,
     \* 34: FIND a AS b
     <<"F", "I", "N", "D", " ", "a", " ", "A", "S", " ", "b">>,
     \* 35: a.b@c$ _x
     <<"a", ".", "b", "@", "c", "$", " ", "_", "x">> >>

\* The queries of a run: the first run lexes every one of them, any other
\* run a few.
QueriesOf(r) == IF r = 1 THEN 1..Len(Queries) ELSE {1, 6, 14}

\* The text of a token as it stands in a query: a string within quotes.
Text(tok) ==
  IF tok.tag # "string" THEN tok.val
  ELSE IF \E k \in 1..Len(tok.val) : tok.val[k] = "'" THEN <<"\"">> \o tok.val \o <<"\"">>
  ELSE <<"'">> \o tok.val \o <<"'">>

\* The texts of a token sequence, single spaces between them.
RECURSIVE Join(_)
Join(toks) ==
  IF toks = <<>> THEN <<>>
  ELSE IF Len(toks) = 1 THEN Text(toks[1])
  ELSE Text(toks[1]) \o <<" ">> \o Join(Tail(toks))

IdleRun ==
  [query |-> <<>>, s |-> <<>>, at |-> <<>>, tokens |-> <<>>, stmt_pos |-> 0, err |-> NoLexErr,
   pc |-> "idle", pass |-> 0, first |-> <<>>]
Call(query, pass, first) ==
  [IdleRun EXCEPT !.query = query, !.pc = "lexer", !.pass = pass, !.first = first]

\* init(): every entry of both regex tables is compiled once, before main().
\* An entry holds who assigned its compiled field last: 0 for init(), else the
\* run whose call did.
Compiled ==
  [pre |-> [p \in 1..Len(lexer_pre_table) |-> 0],
   regex |-> [r \in 1..Len(lexer_regex_table) |-> 0]]

\* The earlier lexer() compiled every entry of lexer_regex_table again on
\* each call.
tables_recompiled(c, r) == [c EXCEPT !.regex = [i \in DOMAIN c.regex |-> r]]
\* What a call of lexer() by run r leaves in the tables: it assigns nothing.
tables_on_entry(c, r) == c

(***************************************************************************)
(* Inputs: token slices as lexer() delivers them.                          *)
(***************************************************************************)
MaxFields == 2
MaxPreds == 3
MaxCount == 2
MaxSublist == 4

FieldNames == <<"src_ip", "dest_ip", "dest_port", "proto", "user">>
FieldName(j) == FieldNames[((j - 1) % Len(FieldNames)) + 1]
Values == <<"192.168.0.1", "80", "tcp", "root", "x">>
Value(j) == Values[((j - 1) % Len(Values)) + 1]

RECURSIVE Concat(_)
Concat(ss) == IF ss = <<>> THEN <<>> ELSE Head(ss) \o Concat(Tail(ss))

\* src_ip , dest_ip , ...
FieldSeq(n) ==
  Concat([j \in 1..n |-> IF j = 1 THEN <<Ident(FieldName(j))>>
                                  ELSE <<tCOMMA, Ident(FieldName(j))>>])

FieldLists ==
  {FieldSeq(n) : n \in 1..MaxFields} \cup
  { <<tALL>>,
    <<>>,
    <<tCOMMA, Ident("src_ip")>>,
    <<Ident("src_ip"), tCOMMA>>,
    <<Ident("src_ip"), tCOMMA, tCOMMA, Ident("dest_ip")>>,
    <<Ident("src_ip"), Ident("dest_ip")>>,
    <<Ident("src_ip"), tAS, Ident("source")>>,
    <<Ident("src_ip"), tAS, Ident("source"), tCOMMA, Ident("dest_ip")>>,
    <<Ident("src_ip"), tCOMMA, Ident("dest_ip"), tAS, Ident("dest")>>,
    <<IntLit("1")>>,
    <<Str("text")>>,
    <<Ident("src_ip"), tLAST>>,
    <<tEQUAL>> }

\* The j-th predicate of a clause: name_j = 'value_j'.
Pred(j) == <<Ident(FieldName(j)), tEQUAL, Str(Value(j))>>

\* MATCHING p1 c1 p2 c2 ... pn for every choice of the connectives AND / OR.
Matching(n, conn) ==
  <<tMATCHING>> \o Concat([j \in 1..n |-> IF j = 1 THEN Pred(j) ELSE <<conn[j - 1]>> \o Pred(j)])

Matchings ==
  UNION {{Matching(n, conn) : conn \in [1..(n - 1) -> {tAND, tOR}]} : n \in 1..MaxPreds} \cup
  { <<tMATCHING, Ident("src_ip"), tLESS, IntLit("1")>>,
    <<tMATCHING, Ident("src_ip"), tEQUAL, tOR>>,
    <<tMATCHING, Ident("src_ip"), tEQUAL, IntLit("1"), tAND>>,
    <<tMATCHING, Ident("src_ip"), tEQUAL, IntLit("1"), tOR, tOR, tEQUAL, tAND>> }

ClockUnits == {Kw("clock", "SECOND"), Kw("clock", "MINUTE"), Kw("clock", "HOUR"),
               Kw("clocks", "HOURS")}
CalendarUnits == {tDAY, Kw("calendar", "WEEK"), Kw("calendar", "FORTNIGHT"),
                  Kw("calendar", "MONTH"), Kw("calendar", "QUARTER"),
                  Kw("calendar", "YEAR"), Kw("calendar", "CENTURY"),
                  Kw("calendars", "MONTHS")}
WeekdayUnits == {Kw("weekday", w) : w \in {"MONDAY", "TUESDAY", "WEDNESDAY", "THURSDAY",
                                            "FRIDAY", "SATURDAY", "SUNDAY"}}
MonthUnits == {Kw("mon", m) : m \in {"JAN", "FEB", "MAR", "APR", "MAY", "JUN", "JUL",
                                      "AUG", "SEP", "OCT", "NOV", "DEC"}}
Units == ClockUnits \cup CalendarUnits \cup WeekdayUnits \cup MonthUnits

Counts == {IntLit(Numerals[k + 1]) : k \in 1..MaxCount}

RelRefs ==
  {<<tLAST, u>> : u \in Units} \cup
  {<<u, tBEFORE, tLAST>> : u \in Units} \cup
  {<<c, u, tAGO>> : c \in Counts, u \in Units} \cup
  {<<u, tAGO>> : u \in Units}

OtherRefs ==
  { <<tYESTERDAY>>, <<tDAY, tBEFORE, tYESTERDAY>>, <<tFOREVER>>,
    <<Str("2020-05-04")>>, <<Str("2022-10-09")>>, <<Str("2030-01-01")>>,
    <<Str("2020-05-04 10:00:00")>>, <<Str("10:00:00")>>, <<Str("yesterday")>>,
    <<Ident("src_ip")>>,
    <<IntLit("3"), Kw("clocks", "HOURS")>>, <<IntLit("3"), tLAST>>, <<IntLit("3")>>,
    <<IntLit("0"), Kw("clocks", "HOURS"), tAGO>>, <<IntLit("0"), Ident("x"), tAGO>>,
    <<IntLit("02"), Kw("calendars", "MONTHS"), tAGO>>,
    <<IntLit("1e2"), Kw("calendars", "MONTHS"), tAGO>>,
    <<IntLit("4"), Kw("calendar", "CENTURY"), tAGO>>,
    <<tLAST>>, <<tLAST, Ident("x")>>, <<tDAY>>, <<tBEFORE, tLAST>> }

Refs == RelRefs \cup OtherRefs

\* The references paired with every other one in a BETWEEN.
PairRefs ==
  { <<tYESTERDAY>>, <<tDAY, tBEFORE, tYESTERDAY>>, <<tLAST, Kw("calendar", "MONTH")>>,
    <<Kw("calendar", "MONTH"), tBEFORE, tLAST>>, <<Str("2020-05-04")>>, <<IntLit("3")>> }

TempClauses ==
  {<<tSINCE>> \o r : r \in Refs} \cup
  {<<tBETWEEN>> \o r1 \o <<tAND>> \o r2 : r1 \in PairRefs, r2 \in Refs} \cup
  {<<tBETWEEN>> \o r1 \o <<tAND>> \o r2 : r1 \in Refs, r2 \in PairRefs} \cup
  { <<tBETWEEN, tYESTERDAY, tYESTERDAY>>, <<tBETWEEN, tYESTERDAY, tOR, tYESTERDAY>>,
    <<tSINCE, tLAST, Kw("clock", "HOUR"), Ident("b")>>,
    <<tFOREVER, tYESTERDAY, tAND, tYESTERDAY>> }

\* Statements that stop where a value or a unit is due, and what may follow
\* a pipe put there.
Unfinished ==
  { <<tFIND, Ident("src_ip"), tSINCE, IntLit("3")>>,
    <<tFIND, Ident("src_ip"), tSINCE, tLAST>>,
    <<tFIND, Ident("src_ip"), tMATCHING, Ident("dest_ip"), tEQUAL>> }
AfterPipe == { <<tSORT, Ident("dest_ip")>>, <<tSINCE, tYESTERDAY>> }

Statements ==
  {<<tFIND>> \o fl \o <<tSINCE, tYESTERDAY>> : fl \in FieldLists} \cup
  {st \o <<tPIPE>> \o rest : st \in Unfinished, rest \in AfterPipe} \cup
  {<<tFIND, Ident("dest_ip")>> \o m \o t :
       m \in Matchings,
       t \in {<<tSINCE, tYESTERDAY>>,
              <<tBETWEEN, IntLit("3"), tAND, IntLit("6"), Kw("calendars", "MONTHS"), tAGO>>}} \cup
  {<<tFIND, Ident("src_ip")>> \o t : t \in TempClauses} \cup
  { <<tFIND, tALL, tSINCE, tYESTERDAY>>,
    <<tFIND, tALL, tMATCHING>> \o Pred(1) \o <<tSINCE, tYESTERDAY>>,
    <<tFIND, Ident("dest_ip"), tMATCHING>> \o Pred(1) \o <<Ident("x")>>,
    <<tSORT, Ident("src_ip")>>,
    <<Ident("src_ip")>>,
    <<tPIPE, tSORT, Ident("src_ip")>>,
    <<tFIND, Ident("src_ip"), tCOMMA, Ident("dest_ip"), tBETWEEN, tLAST,
      Kw("calendar", "MONTH"), tAND, Kw("calendar", "FORTNIGHT"), tAGO>> }

Prefixes(st) == {SubSeq(st, 1, k) : k \in 0..Len(st)}

\* Every statement and every truncation of one.
Inputs == UNION {Prefixes(st) : st \in Statements}

\* What follows the pipe in the piped form of a statement.
Remainders ==
  { <<tSORT, Ident("dest_ip")>>, <<tDISTINCT, Ident("src_ip")>>, <<>>,
    <<tBEFORE, tLAST>>, <<tAGO>> }

\* The instants read from the clock: 2023-03-15 10:30:15.000000500 (a
\* Wednesday), 2024-03-31 00:00:00.000001000 (a Sunday, just after midnight)
\* and 2023-01-01 23:59:59.999999999 (a Sunday).
NowSet == { [d |-> 19431, s |-> 37815, n |-> 500],
            [d |-> 19813, s |-> 0, n |-> 1000],
            [d |-> 19358, s |-> 86399, n |-> 999999999] }

(***************************************************************************)
(* State: the Parser struct, the locals of parser() and do_stmt_sublist    *)
(* that live across steps, the position in the code, the value parser()    *)
(* returns, the clock, and the loop of TestParser over its statements.     *)
(***************************************************************************)
VARIABLES tokens, num_tokens, token_index, fields, field_aliases, find_flags,
          time_from, time_to, or_list, cmd, cmd2, sublist, pc, err, now,
          stmt_no, prev, lex, compiled

parser_vars == <<tokens, num_tokens, token_index, fields, field_aliases, find_flags,
                 time_from, time_to, or_list>>
parse_vars == <<tokens, num_tokens, token_index, fields, field_aliases, find_flags,
                time_from, time_to, or_list, cmd, cmd2, sublist, pc, err, now, stmt_no, prev>>
lexer_vars == <<lex, compiled>>
vars == <<parse_vars, lexer_vars>>

Zero == Norm(0, 0, 0)

\* What a parse leaves in the Parser struct.
Outcome == [tokens |-> tokens, fields |-> fields, field_aliases |-> field_aliases,
            find_flags |-> find_flags, or_list |-> or_list,
            time_from |-> time_from, time_to |-> time_to]

\* var parser Parser; parser.tokens = tokens; parser.num_tokens = len(tokens)
NewParser(toks) ==
  /\ tokens = toks
  /\ num_tokens = Len(toks)
  /\ token_index = 0
  /\ fields = <<>>
  /\ field_aliases = <<>>
  /\ find_flags = 0
  /\ time_from = Zero
  /\ time_to = Zero
  /\ or_list = <<>>
  /\ cmd = <<>>
  /\ cmd2 = <<>>
  /\ sublist = 0
  /\ pc = "parser"
  /\ err = NoErr

Init ==
  /\ \E toks \in Inputs : NewParser(toks)
  /\ now \in NowSet
  /\ stmt_no = 1
  /\ prev = [tokens |-> <<>>, fields |-> <<>>, field_aliases |-> <<>>, find_flags |-> 0,
             or_list |-> <<>>, time_from |-> Zero, time_to |-> Zero]
  /\ lex = [r \in Runs |-> IdleRun]
  /\ compiled = Compiled

\* A return with an error (or a panic) unwinds to the caller of parser().
Fail(e) == pc' = "done" /\ err' = e

\* Reading tokens[token_index] where the code does so without a bounds test.
InRange == token_index < num_tokens

parser ==
  /\ pc = "parser"
  /\ num_tokens' = Len(tokens)
  /\ token_index' = 0
  /\ IF HasPipe(tokens)
       THEN LET i == FirstPipe(tokens)
            IN  /\ cmd2' = SubCommands(tokens, i)
                /\ IF i - 1 < 0
                     THEN /\ cmd' = tokens
                          /\ Fail(Panic("slice bounds out of range", i))
                     ELSE /\ cmd' = PrimaryCommand(tokens, i)
                          /\ pc' = "do_syntax"
                          /\ err' = err
       ELSE /\ cmd' = tokens
            /\ cmd2' = cmd2
            /\ pc' = "do_syntax"
            /\ err' = err
  /\ UNCHANGED <<tokens, fields, field_aliases, find_flags, time_from, time_to, or_list,
                 sublist, now, lexer_vars, stmt_no, prev>>

do_syntax ==
  /\ pc = "do_syntax"
  /\ IF ~InRange THEN Fail(OutOfRange(token_index))
     ELSE IF At(tokens, token_index).token = sym_find THEN pc' = "do_stmt" /\ err' = err
     ELSE Fail(ErrAt(num_tokens, "expected statement", token_index))
  /\ UNCHANGED <<parser_vars, cmd, cmd2, sublist, now, lexer_vars, stmt_no, prev>>

do_stmt ==
  /\ pc = "do_stmt"
  /\ token_index' = token_index + 1
  /\ pc' = "do_stmt_list"
  /\ UNCHANGED <<tokens, num_tokens, fields, field_aliases, find_flags, time_from, time_to,
                 or_list, cmd, cmd2, sublist, err, now, lexer_vars, stmt_no, prev>>

do_stmt_list ==
  /\ pc = "do_stmt_list"
  /\ IF ~InRange
       THEN Fail(OutOfRange(token_index)) /\ UNCHANGED <<token_index, find_flags, sublist>>
     ELSE IF At(tokens, token_index).token = sym_all
       THEN /\ token_index' = token_index + 1
            /\ find_flags' = find_flags_all
            /\ pc' = "do_syntax_matching"
            /\ UNCHANGED <<err, sublist>>
     ELSE /\ sublist' = 0
          /\ pc' = "do_stmt_sublist"
          /\ UNCHANGED <<err, token_index, find_flags>>
  /\ UNCHANGED <<tokens, num_tokens, fields, field_aliases, time_from, time_to, or_list,
                 cmd, cmd2, now, lexer_vars, stmt_no, prev>>

\* One turn of the loop of do_stmt_sublist, or what follows the loop.
do_stmt_sublist ==
  /\ pc = "do_stmt_sublist"
  /\ sublist < MaxSublist
  /\ IF InRange
       THEN LET r == sublist_turn(tokens, num_tokens, token_index, sublist, fields,
                                  field_aliases)
            IN  /\ token_index' = r.idx
                /\ sublist' = r.sublist
                /\ fields' = r.fields
                /\ field_aliases' = r.field_aliases
                /\ IF r.err # NoErr THEN Fail(r.err)
                   ELSE IF ~r.exit THEN UNCHANGED <<pc, err>>
                   ELSE IF sublist < 1
                     THEN Fail(ErrAt(num_tokens, "FIND statement cut short", token_index))
                   ELSE pc' = "do_syntax_matching" /\ err' = err
       ELSE /\ UNCHANGED <<token_index, sublist, fields, field_aliases>>
            /\ IF sublist < 1
                 THEN Fail(ErrAt(num_tokens, "FIND statement cut short", token_index))
                 ELSE pc' = "do_syntax_matching" /\ err' = err
  /\ UNCHANGED <<tokens, num_tokens, find_flags, time_from, time_to, or_list, cmd, cmd2,
                 now, lexer_vars, stmt_no, prev>>

\* do_syntax after the statement: the optional MATCHING.
do_syntax_matching ==
  /\ pc = "do_syntax_matching"
  /\ IF ~InRange THEN Fail(OutOfRange(token_index)) /\ UNCHANGED token_index
     ELSE IF At(tokens, token_index).token = sym_matching
       THEN token_index' = token_index + 1 /\ pc' = "do_matching_cond" /\ err' = err
     ELSE pc' = "do_syntax_temporal" /\ UNCHANGED <<token_index, err>>
  /\ UNCHANGED <<tokens, num_tokens, fields, field_aliases, find_flags, time_from, time_to,
                 or_list, cmd, cmd2, sublist, now, lexer_vars, stmt_no, prev>>

\* do_or_cond up to its AND loop, entered from do_matching_cond.
do_or_cond ==
  /\ pc \in {"do_matching_cond", "do_or_cond"}
  /\ IF ~InRange
       THEN Fail(OutOfRange(token_index)) /\ UNCHANGED <<token_index, or_list>>
       ELSE LET pr == predicate(tokens, num_tokens, token_index)
            IN  /\ or_list' = or_cond(or_list, pr)
                /\ token_index' = pr.idx
                /\ IF pr.err # NoErr THEN Fail(pr.err)
                   ELSE pc' = "and_loop" /\ err' = err
  /\ UNCHANGED <<tokens, num_tokens, fields, field_aliases, find_flags, time_from, time_to,
                 cmd, cmd2, sublist, now, lexer_vars, stmt_no, prev>>

\* The AND loop of do_or_cond: its test, and do_and_cond when it passes.
do_and_cond ==
  /\ pc = "and_loop"
  /\ IF ~InRange
       THEN Fail(OutOfRange(token_index)) /\ UNCHANGED <<token_index, or_list>>
     ELSE IF At(tokens, token_index).token # sym_and
       THEN pc' = "or_loop" /\ UNCHANGED <<token_index, or_list, err>>
     ELSE IF token_index + 1 >= num_tokens
       THEN /\ token_index' = token_index + 1
            /\ Fail(OutOfRange(token_index + 1))
            /\ UNCHANGED or_list
     ELSE LET pr == predicate(tokens, num_tokens, token_index + 1)
          IN  /\ or_list' = and_cond(or_list, pr)
              /\ token_index' = pr.idx
              /\ IF pr.err # NoErr THEN Fail(pr.err) ELSE UNCHANGED <<pc, err>>
  /\ UNCHANGED <<tokens, num_tokens, fields, field_aliases, find_flags, time_from, time_to,
                 cmd, cmd2, sublist, now, lexer_vars, stmt_no, prev>>

\* The OR loop of do_matching_cond: its test.
do_matching_cond ==
  /\ pc = "or_loop"
  /\ IF ~InRange THEN Fail(OutOfRange(token_index)) /\ UNCHANGED token_index
     ELSE IF At(tokens, token_index).token = sym_or
       THEN token_index' = token_index + 1 /\ pc' = "do_or_cond" /\ err' = err
     ELSE pc' = "do_syntax_temporal" /\ UNCHANGED <<token_index, err>>
  /\ UNCHANGED <<tokens, num_tokens, fields, field_aliases, find_flags, time_from, time_to,
                 or_list, cmd, cmd2, sublist, now, lexer_vars, stmt_no, prev>>

\* do_syntax: the temporal clause is not optional.
do_syntax_temporal ==
  /\ pc = "do_syntax_temporal"
  /\ IF ~InRange THEN Fail(OutOfRange(token_index))
     ELSE IF At(tokens, token_index).token \in {sym_since, sym_between}
       THEN pc' = "do_temp_cond" /\ err' = err
     ELSE Fail(ErrAt(num_tokens, "expected temporal clause (SINCE or BETWEEN)", token_index))
  /\ UNCHANGED <<parser_vars, cmd, cmd2, sublist, now, lexer_vars, stmt_no, prev>>

do_temp_cond ==
  /\ pc = "do_temp_cond"
  /\ token_index' = token_index + 1
  /\ pc' = IF At(tokens, token_index).token = sym_since THEN "do_temp_since"
           ELSE "do_temp_between"
  /\ UNCHANGED <<tokens, num_tokens, fields, field_aliases, find_flags, time_from, time_to,
                 or_list, cmd, cmd2, sublist, err, now, lexer_vars, stmt_no, prev>>

\* do_temp_since with r what do_temp_ref(&p.time_from, false) returns.
temp_since_of(r) ==
  /\ token_index' = r.idx
  /\ time_from' = IF r.set THEN r.t ELSE time_from
  /\ IF r.err # NoErr THEN Fail(r.err) /\ UNCHANGED time_to
     ELSE time_to' = now /\ pc' = "do_temp_cond_end" /\ err' = err

do_temp_since ==
  /\ pc = "do_temp_since"
  /\ temp_since_of(do_temp_ref(tokens, num_tokens, token_index, FALSE, now))
  /\ UNCHANGED <<tokens, num_tokens, fields, field_aliases, find_flags, or_list, cmd, cmd2,
                 sublist, now, lexer_vars, stmt_no, prev>>

\* do_temp_between up to the AND, with r what do_temp_ref(&p.time_from, false)
\* returns.
temp_between_of(r) ==
  /\ time_from' = IF r.set THEN r.t ELSE time_from
  /\ IF r.err # NoErr THEN Fail(r.err) /\ token_index' = r.idx
     ELSE IF r.idx >= num_tokens
       THEN Fail(OutOfRange(r.idx)) /\ token_index' = r.idx
     ELSE IF At(tokens, r.idx).token # sym_and
       THEN /\ Fail(ErrAt(num_tokens, "missing AND in <temp-between>", r.idx))
            /\ token_index' = r.idx
     ELSE token_index' = r.idx + 1 /\ pc' = "do_temp_between_to" /\ err' = err

\* do_temp_between: the first reference and the AND.
do_temp_between ==
  /\ pc = "do_temp_between"
  /\ temp_between_of(do_temp_ref(tokens, num_tokens, token_index, FALSE, now))
  /\ UNCHANGED <<tokens, num_tokens, fields, field_aliases, find_flags, time_to, or_list,
                 cmd, cmd2, sublist, now, lexer_vars, stmt_no, prev>>

\* The rest of do_temp_between, with r what do_temp_ref(&p.time_to, true)
\* returns.
temp_between_to_of(r) ==
  /\ token_index' = r.idx
  /\ time_to' = IF r.set THEN r.t ELSE time_to
  /\ IF r.err # NoErr THEN Fail(r.err)
     ELSE pc' = "do_temp_cond_end" /\ err' = err

\* do_temp_between: the second reference, inclusive.
do_temp_between_to ==
  /\ pc = "do_temp_between_to"
  /\ temp_between_to_of(do_temp_ref(tokens, num_tokens, token_index, TRUE, now))
  /\ UNCHANGED <<tokens, num_tokens, fields, field_aliases, find_flags, time_from, or_list,
                 cmd, cmd2, sublist, now, lexer_vars, stmt_no, prev>>

\* The end of do_temp_cond, and the successful return of parser().
do_temp_cond_end ==
  /\ pc = "do_temp_cond_end"
  /\ LET r == SwapRange(time_from, time_to)
     IN  time_from' = r.from /\ time_to' = r.to
  /\ pc' = "done"
  /\ UNCHANGED <<tokens, num_tokens, token_index, fields, field_aliases, find_flags, or_list,
                 cmd, cmd2, sublist, err, now, lexer_vars, stmt_no, prev>>

\* TestParser goes on to its next statement when parser() returned no error:
\* here the piped form of the statement just parsed.
TestParser ==
  /\ pc = "done"
  /\ err = NoErr
  /\ stmt_no = 1
  /\ ~HasPipe(tokens)
  /\ \E rest \in Remainders :
       /\ tokens' = tokens \o <<tPIPE>> \o rest
       /\ num_tokens' = Len(tokens')
  /\ token_index' = 0
  /\ fields' = <<>>
  /\ field_aliases' = <<>>
  /\ find_flags' = 0
  /\ time_from' = Zero
  /\ time_to' = Zero
  /\ or_list' = <<>>
  /\ cmd' = <<>>
  /\ cmd2' = <<>>
  /\ sublist' = 0
  /\ pc' = "parser"
  /\ stmt_no' = 2
  /\ prev' = Outcome
  /\ UNCHANGED <<err, now, lexer_vars>>

Next ==
  \/ parser
  \/ do_syntax
  \/ do_stmt
  \/ do_stmt_list
  \/ do_stmt_sublist
  \/ do_syntax_matching
  \/ do_or_cond
  \/ do_and_cond
  \/ do_matching_cond
  \/ do_syntax_temporal
  \/ do_temp_cond
  \/ do_temp_since
  \/ do_temp_between
  \/ do_temp_between_to
  \/ do_temp_cond_end
  \/ TestParser

Spec == Init /\ [][Next]_vars

(***************************************************************************)
(* Lexer actions.                                                          *)
(***************************************************************************)
\* TestLexer: lexer(statements[i])
TestLexer(r) ==
  /\ lex[r].pc \in {"idle", "done"}
  /\ \E k \in QueriesOf(r) : lex' = [lex EXCEPT ![r] = Call(Queries[k], 0, <<>>)]
  /\ UNCHANGED <<compiled, parse_vars>>

\* lexer() on the joined texts of the tokens a call returned.
Relex(r) ==
  /\ lex[r].pc = "done"
  /\ lex[r].err = NoLexErr
  /\ lex[r].pass < MaxRelex
  /\ lex' = [lex EXCEPT ![r] = Call(Join(lex[r].tokens), lex[r].pass + 1,
                                    IF lex[r].pass = 0 THEN lex[r].tokens ELSE lex[r].first)]
  /\ UNCHANGED <<compiled, parse_vars>>

\* lexer(): the pre-table loop and strings.TrimSpace.
lexer_enter(r) ==
  /\ lex[r].pc = "lexer"
  /\ lex' = [lex EXCEPT ![r] = [LexEnter(lex[r]) EXCEPT !.pc = "loop"]]
  /\ compiled' = tables_on_entry(compiled, r)
  /\ UNCHANGED parse_vars

\* for len(s) > 0: one token, or the return of an error.
Looped(L) == [L EXCEPT !.pc = IF L.err = NoLexErr THEN "loop" ELSE "done"]
lexer_token(r) ==
  /\ lex[r].pc = "loop"
  /\ lex[r].s # <<>>
  /\ lex' = [lex EXCEPT ![r] = Looped(LexTurn(lex[r]))]
  /\ UNCHANGED <<compiled, parse_vars>>

\* return tokens, nil
lexer_return(r) ==
  /\ lex[r].pc = "loop"
  /\ lex[r].s = <<>>
  /\ lex' = [lex EXCEPT ![r].pc = "done"]
  /\ UNCHANGED <<compiled, parse_vars>>

\* The lexer on its own: no parse is under way.
LexInit ==
  /\ NewParser(<<>>)
  /\ now = Zero
  /\ stmt_no = 1
  /\ prev = [tokens |-> <<>>, fields |-> <<>>, field_aliases |-> <<>>, find_flags |-> 0,
             or_list |-> <<>>, time_from |-> Zero, time_to |-> Zero]
  /\ lex = [r \in Runs |-> IdleRun]
  /\ compiled = Compiled

LexNext ==
  \/ \E r \in Runs : TestLexer(r)
  \/ \E r \in Runs : Relex(r)
  \/ \E r \in Runs : lexer_enter(r)
  \/ \E r \in Runs : lexer_token(r)
  \/ \E r \in Runs : lexer_return(r)

LexSpec == LexInit /\ [][LexNext]_vars

(***************************************************************************)
(* Properties.                                                             *)
(***************************************************************************)
Succeeded == pc = "done" /\ err = NoErr

\* C1: after every successful parse time_from <= time_to, also when the two
\* references of BETWEEN come in reverse chronological order.
C1_RangeOrdered == Succeeded => TLeq(time_from, time_to)

\* A successful BETWEEN whose first reference resolved later than its second:
\* the first reference's instant has ended up in time_to.
C1_SwappedBetween ==
  /\ Succeeded
  /\ num_tokens > 3
  /\ At(tokens, 2) = tBETWEEN
  /\ time_to = do_temp_ref(tokens, num_tokens, 3, FALSE, now).t
  /\ TLess(time_from, time_to)

\* The statements C2 names: a field list only, ALL only, and either of them
\* with a complete MATCHING clause; none holds SINCE or BETWEEN.
C2_Statements ==
  {<<tFIND>> \o fl \o m :
     fl \in {FieldSeq(n) : n \in 1..MaxFields} \cup {<<tALL>>},
     m \in {<<>>} \cup
           UNION {{Matching(n, conn) : conn \in [1..(n - 1) -> {tAND, tOR}]} : n \in 1..MaxPreds}}

\* C2: a query with neither SINCE nor BETWEEN fails with the
\* missing-temporal-clause error.
C2_MissingTemporalClause ==
  (pc = "done" /\ tokens \in C2_Statements) =>
     (err.kind = "error" /\ err.msg = "expected temporal clause (SINCE or BETWEEN)")

\* C3: every turn of the field-sublist loop and of the AND loop strictly
\* advances token_index (so that parser() terminates).
C3_LoopsAdvance ==
  [][((pc = "do_stmt_sublist" /\ pc' = "do_stmt_sublist")
        \/ (pc = "and_loop" /\ pc' = "and_loop"))
       => token_index' > token_index]_vars

\* C4: parser() returns success or one error value for every token sequence;
\* it never indexes or slices out of range.
C4_NeverOutOfRange == pc = "done" => err.kind \in {"nil", "error"}

\* The statements whose temporal reference is <unit> AGO with no count.
C5_Statements ==
  {<<tFIND, Ident("src_ip"), tSINCE, u, tAGO>> : u \in Units} \cup
  {<<tFIND, Ident("src_ip"), tBETWEEN, tYESTERDAY, tAND, u, tAGO>> : u \in Units} \cup
  { <<tFIND, Ident("src_ip"), tCOMMA, Ident("dest_ip"), tBETWEEN, tLAST,
      Kw("calendar", "MONTH"), tAND, Kw("calendar", "FORTNIGHT"), tAGO>> }

\* C5: <unit> AGO without an integer literal before it makes the parse fail.
C5_UnitAgoRejected ==
  (pc = "done" /\ tokens \in C5_Statements) => err.kind = "error"

\* C6: FIND <fields> SINCE FOREVER parses successfully with time_from = 0.
C6_ForeverIsEpoch ==
  (pc = "done" /\ tokens = <<tFIND, Ident("src_ip"), tSINCE, tFOREVER>>) =>
     (err = NoErr /\ time_from = Zero)

RECURSIVE CondTree(_, _, _)
CondTree(toks, i, groups) ==
  LET p == [left |-> do_val_expr(At(toks, i)), this |-> do_val_expr(At(toks, i + 1)),
            right |-> do_val_expr(At(toks, i + 2))]
      g == [groups EXCEPT ![Len(groups)] = Append(@, p)]
  IN  IF i + 3 >= Len(toks) THEN g
      ELSE IF At(toks, i + 3).token = sym_and THEN CondTree(toks, i + 4, g)
      ELSE IF At(toks, i + 3).token = sym_or THEN CondTree(toks, i + 4, Append(g, <<>>))
      ELSE g

\* or_list as groups of predicates: the entry's own predicate, then its
\* and_list.
Strip(e) == [left |-> e.left, this |-> e.this, right |-> e.right]
GroupsOf(list) ==
  [k \in 1..Len(list) |->
     <<Strip(list[k])>> \o [j \in 1..Len(list[k].and_list) |-> Strip(list[k].and_list[j])]]

\* The Go index of the MATCHING token that follows the field list.
MatchingAt(toks) ==
  CHOOSE i \in 0..(Len(toks) - 1) :
    /\ At(toks, i).token = sym_matching
    /\ \A j \in 0..(i - 1) : At(toks, j).token # sym_matching

\* C8: after a successful parse of a MATCHING clause or_list holds one entry
\* per OR-separated group, in source order, and entry i holds exactly the
\* predicates of group i in source order.
C8_OrOfAnds ==
  (Succeeded /\ \E i \in 0..(num_tokens - 1) : At(tokens, i).token = sym_matching) =>
     /\ \A k \in 1..Len(or_list) :
          /\ or_list[k].filled
          /\ \A j \in 1..Len(or_list[k].and_list) : or_list[k].and_list[j].filled
     /\ GroupsOf(or_list) = CondTree(tokens, MatchingAt(tokens) + 1, << <<>> >>)

\* A parsed clause of two groups, the first of them with an AND.
C8_TwoGroups ==
  /\ Succeeded
  /\ Len(or_list) >= 2
  /\ Len(or_list[1].and_list) >= 1

\* The length of a clock unit in seconds.
ClockSeconds(tok) ==
  CASE tok = sym_second -> 1
    [] tok = sym_minute -> 60
    [] tok = sym_hour -> 60 * 60

\* C9: for a clock unit the resolved instant is the current instant minus
\* count whole units, truncated to the minute for MINUTE and to the hour for
\* HOUR.
C9_ClockUnits ==
  \A u \in ClockUnits :
    /\ (Succeeded /\ tokens = <<tFIND, Ident("src_ip"), tSINCE, tLAST, u>>) =>
          time_from = ClockTruncate(u.token, TSub(now, Norm(0, ClockSeconds(u.token), 0)))
    /\ \A c \in Counts :
         (Succeeded /\ tokens = <<tFIND, Ident("src_ip"), tSINCE, c, u, tAGO>>) =>
            time_from = ClockTruncate(u.token,
                                      TSub(now, Norm(0, Atoi(c.val).i * ClockSeconds(u.token), 0)))

\* Midnight of the day k days before the current day.
Midnight(k) == [d |-> now.d - k, s |-> 0, n |-> 0]

\* C10: YESTERDAY and DAY BEFORE YESTERDAY resolve to midnight one and two
\* days before the current day; as the closing bound each gives the last
\* instant of that day, midnight plus one day minus one nanosecond.
C10_Yesterday ==
  /\ (Succeeded /\ tokens = <<tFIND, Ident("src_ip"), tBETWEEN, tDAY, tBEFORE, tYESTERDAY,
                              tAND, tYESTERDAY>>) =>
        /\ time_from = Midnight(2)
        /\ time_to = TSub(Midnight(0), Duration(1))
  /\ (Succeeded /\ tokens = <<tFIND, Ident("src_ip"), tSINCE, tYESTERDAY>>) =>
        time_from = Midnight(1)

\* The references n <unit> AGO that C11 pairs with a bare integer.
C11_Second == {<<c, u, tAGO>> : c \in Counts, u \in Units} \cup
              { <<IntLit("6"), Kw("calendars", "MONTHS"), tAGO>> }

\* What precedes the temporal clause: FIND with a field, with or without a
\* MATCHING clause of one predicate.
C11_Heads == { <<tFIND, Ident("src_ip")>>,
               <<tFIND, Ident("dest_ip"), tMATCHING>> \o Pred(1) }

\* n <unit> AGO as do_temp_ref resolves it when the reference stands alone.
C11_Bound(n, ref, end) ==
  do_temp_ref(<<n, ref[2], ref[3]>>, 3, 0, end, now).t

\* C11: BETWEEN n AND m <unit> AGO with a bare integer n parses successfully
\* to the range between n units ago and m units ago, which does not end at
\* the current instant.
C11_BareIntegerBetween ==
  \A ref \in C11_Second :
    (pc = "done" /\ \E h \in C11_Heads : tokens = h \o <<tBETWEEN, IntLit("3"), tAND>> \o ref) =>
       /\ err = NoErr
       /\ time_to # now
       /\ {time_from, time_to} =
            {C11_Bound(IntLit("3"), ref, FALSE), C11_Bound(ref[1], ref, TRUE)}

Since == <<tSINCE, tYESTERDAY>>

\* Field lists with a comma out of place: leading, doubled, before a keyword,
\* at the end of the tokens.
C12_BadCommas ==
  { <<tFIND, tCOMMA, Ident("src_ip")>> \o Since,
    <<tFIND, Ident("src_ip"), tCOMMA, tCOMMA, Ident("dest_ip")>> \o Since,
    <<tFIND, Ident("src_ip"), tCOMMA>> \o Since,
    <<tFIND, Ident("src_ip"), tCOMMA>> }

\* C12: a leading, doubled or trailing comma in the field sublist fails with
\* the expected-field error, a FIND without field spec with the
\* statement-truncated error, and identifiers separated by single commas are
\* accepted.
C12_SublistCommas ==
  /\ (pc = "done" /\ tokens \in C12_BadCommas) =>
        (err.kind = "error" /\ err.msg = "expected <stmt-sublist>")
  /\ (pc = "done" /\ tokens \in {<<tFIND>>, <<tFIND>> \o Since}) =>
        (err.kind = "error" /\ err.msg = "FIND statement cut short")
  /\ \A n \in 1..MaxFields :
       (pc = "done" /\ tokens = <<tFIND>> \o FieldSeq(n) \o Since) =>
          (err = NoErr /\ fields = [j \in 1..n |-> FieldName(j)])

\* Field lists with the names and aliases their specs spell out.
C13_Specs ==
  {[list |-> FieldSeq(n), names |-> [j \in 1..n |-> FieldName(j)],
    aliases |-> [j \in 1..n |-> FieldName(j)]] : n \in 1..MaxFields} \cup
  { [list |-> <<Ident("src_ip"), tAS, Ident("source")>>,
     names |-> <<"src_ip">>, aliases |-> <<"source">>],
    [list |-> <<Ident("src_ip"), tAS, Ident("source"), tCOMMA, Ident("dest_ip")>>,
     names |-> <<"src_ip", "dest_ip">>, aliases |-> <<"source", "dest_ip">>],
    [list |-> <<Ident("src_ip"), tCOMMA, Ident("dest_ip"), tAS, Ident("dest")>>,
     names |-> <<"src_ip", "dest_ip">>, aliases |-> <<"src_ip", "dest">>] }

\* C13: after a successful parse fields and field_aliases have the same
\* length and the order of the specs; the i-th alias is the identifier after
\* AS, or the field name when the spec has no AS.
C13_Aliases ==
  /\ Succeeded => Len(fields) = Len(field_aliases)
  /\ \A sp \in C13_Specs :
       (pc = "done" /\ tokens = <<tFIND>> \o sp.list \o Since) =>
          (err = NoErr /\ fields = sp.names /\ field_aliases = sp.aliases)

\* BETWEEN <ref1> followed by a token that is not AND, or by nothing.
C14_NoAnd ==
  LET first == { <<tYESTERDAY>>, <<tDAY, tBEFORE, tYESTERDAY>>,
                 <<tLAST, Kw("calendar", "MONTH")>>, <<Str("2020-05-04")>> }
  IN  {<<tFIND, Ident("src_ip"), tBETWEEN>> \o r : r \in first} \cup
      { <<tFIND, Ident("src_ip"), tBETWEEN, tYESTERDAY, tYESTERDAY>>,
        <<tFIND, Ident("src_ip"), tBETWEEN, tYESTERDAY, tOR, tYESTERDAY>> }

\* C14: when the token after the first reference of BETWEEN is not AND, or
\* the tokens end there, the parse fails with the missing-AND error and
\* time_to is not resolved.
C14_MissingAnd ==
  (pc = "done" /\ tokens \in C14_NoAnd) =>
     /\ err.kind = "error"
     /\ err.msg = "missing AND in <temp-between>"
     /\ time_to = Zero

\* C15: when the tokens run out directly after MATCHING, after the left value
\* or after the operator, the parse fails with 'MATCHING statement cut short'.
C15_MatchingCutShort ==
  \A k \in 0..2 :
    (pc = "done" /\ tokens = <<tFIND, Ident("dest_ip"), tMATCHING>> \o SubSeq(Pred(1), 1, k)) =>
       (err.kind = "error" /\ err.msg = "MATCHING statement cut short")

\* A lexer run that has returned.
Returned(r) == lex[r].pc = "done"

\* C16: lexer() returns, for every query, either a token sequence or the
\* no-match error that carries the remaining input.
C16_TokensOrNoMatch ==
  \A r \in Runs :
    Returned(r) =>
      \/ lex[r].err = NoLexErr
      \/ lex[r].err = [kind |-> "no_match", text |-> lex[r].s]

\* The first entry from r on, in table order, that matches at the start of s;
\* 0 if there is none.
RECURSIVE AnchoredRule(_, _)
AnchoredRule(s, r) ==
  IF r > Len(lexer_regex_table) THEN 0
  ELSE IF MatchLen(r, s, 1) > 0 THEN r
  ELSE AnchoredRule(s, r + 1)

\* s without its first n characters and the white space directly after them.
Rest(s, n) == SubSeq(s, n + 1 + Run("space", s, n + 1), Len(s))

\* The token tok and the remaining input rest are what the entry a leaves of
\* the remaining input s when its match at the start is taken.
TakenAtStart(s, a, tok, rest) ==
  /\ a > 0
  /\ tok.tag = lexer_regex_table[a].tag
  /\ tok.val = ValOf(tok.tag, SubSeq(s, 1, MatchLen(a, s, 1)))
  /\ rest = Rest(s, MatchLen(a, s, 1))

\* C17: every token the lexer emits is the match, at the start of the
\* remaining input, of the first rule in table order that matches there, and
\* the lexer removes exactly that match and the white space directly after it.
C17_FirstRuleAtStart ==
  [][\A r \in Runs :
       (lex[r].pc = "loop" /\ Len(lex'[r].tokens) = Len(lex[r].tokens) + 1) =>
         TakenAtStart(lex[r].s, AnchoredRule(lex[r].s, 1),
                      lex'[r].tokens[Len(lex'[r].tokens)], lex'[r].s)]_vars

\* Token sequences with the same length and the same kind, tag and text at
\* every position.
SameTokens(a, b) ==
  /\ Len(a) = Len(b)
  /\ \A k \in 1..Len(a) :
       a[k].token = b[k].token /\ a[k].tag = b[k].tag /\ a[k].val = b[k].val

\* C18: lexing the joined texts of a token sequence that lexer() returned
\* gives a token sequence with the same length and the same kind, tag and
\* text at every position.
C18_RelexSame ==
  \A r \in Runs :
    (Returned(r) /\ lex[r].pass > 0) =>
      lex[r].err = NoLexErr /\ SameTokens(lex[r].tokens, lex[r].first)

\* C19: the stmt_pos of every token is the offset of the token's first
\* character in the query.
C19_StmtPosIsOffset ==
  \A r \in Runs :
    \A k \in 1..Len(lex[r].tokens) : lex[r].tokens[k].stmt_pos = lex[r].tokens[k].src

\* What a call returns: the tokens and the error.
Result(L) == [tokens |-> L.tokens, err |-> L.err]

\* C20: no step of a lexer run writes to the process-wide tables, and a run
\* interleaved with another one returns what lexer() returns for its query
\* on its own.
C20_TablesReadOnly ==
  /\ [][compiled' = compiled]_vars
  /\ [](\A r \in Runs : Returned(r) => Result(lex[r]) = Result(lexer(lex[r].query)))

\* Two runs on different queries, both in the middle of their token loop.
C20_TwoRunsInterleaved ==
  /\ lex[1].pc = "loop" /\ lex[1].tokens # <<>> /\ lex[1].s # <<>>
  /\ lex[2].pc = "loop" /\ lex[2].tokens # <<>> /\ lex[2].s # <<>>
  /\ lex[1].query # lex[2].query

\* The text of a token is matched whole by an entry of lexer_regex_table other
\* than the one that emitted it.
WholeBy(text, tag) ==
  \E a \in 1..Len(lexer_regex_table) :
    lexer_regex_table[a].tag # tag /\ text # <<>> /\ MatchLen(a, text, 1) = Len(text)

\* Token k of run L stands in the query as its text, without quotes or
\* brackets.
Plain(L, k) ==
  /\ L.tokens[k].tag # "string"
  /\ L.query[L.tokens[k].src + 1] # "["

\* Tokens k and k+1 of run L stand in the query without anything between them.
Adjacent(L, k) ==
  /\ Plain(L, k) /\ Plain(L, k + 1)
  /\ L.tokens[k + 1].src = L.tokens[k].src + Len(L.tokens[k].val)

\* C21: no reserved word is tokenized as an identifier, and no word, operator
\* or number that one rule matches whole is split in two tokens by an earlier
\* rule.
C21_NothingShadowed ==
  \A r \in Runs :
    /\ \A k \in 1..Len(lex[r].tokens) :
         (lex[r].tokens[k].tag = "ident" /\ Plain(lex[r], k)) =>
           ~WholeBy(lex[r].tokens[k].val, "ident")
    /\ \A k \in 1..(Len(lex[r].tokens) - 1) :
         Adjacent(lex[r], k) =>
           ~WholeBy(lex[r].tokens[k].val \o lex[r].tokens[k + 1].val, "")

\* C22: no query makes lexer() return the unknown-symbol error.
C22_NoUnknownSymbol ==
  \A r \in Runs : lex[r].err.kind # "unknown_symbol"

\* C23: during a parse token_index never decreases, and it stays within
\* 0..num_tokens in every state.
C23_CursorForward ==
  /\ [][pc # "done" => token_index' >= token_index]_vars
  /\ [](0 <= token_index /\ token_index <= num_tokens)

\* A parse that failed after the cursor had moved.
C23_CursorMoved == pc = "done" /\ token_index > 0 /\ err # NoErr

\* FIND src_ip SINCE <reference>.
SinceRef(ref) == <<tFIND, Ident("src_ip"), tSINCE>> \o ref

\* time.Weekday of a weekday unit.
WeekdayOf(u) == ((u.token - sym_monday) + 1) % 7

\* Midnight of the latest day on or before the current day that falls on
\* weekday wd, moved back by a further number of days.
OnOrBefore(wd, further) ==
  [d |-> (now.d - (CHOOSE k \in 0..6 : Weekday([d |-> now.d - k, s |-> 0, n |-> 0]) = wd))
         - further,
   s |-> 0, n |-> 0]

MonthOf(u) == (u.token - sym_january) + 1

\* The calendar fields of the clock reading.
Today == CivilFromDays(now.d)

\* Day 1, 00:00 of the named month in the latest year in which the current
\* month is later than it, count - 1 years earlier.
FirstOfMonth(month, count) ==
  [d |-> DaysFromCivil((IF Today.month > month THEN Today.year ELSE Today.year - 1)
                         - (count - 1), month, 1),
   s |-> 0, n |-> 0]

MonthsBack(k) ==
  [d |-> DaysFromCivil(((Today.year * 12 + Today.month - 1) - k) \div 12,
                       (((Today.year * 12 + Today.month - 1) - k) % 12) + 1, 1)
         + Today.day - 1,
   s |-> 0, n |-> 0]

\* Midnight of the current date moved back by count units of a calendar unit.
MovedBack(tok, count) ==
  CASE tok = sym_day -> [d |-> now.d - count, s |-> 0, n |-> 0]
    [] tok = sym_week -> [d |-> now.d - 7 * count, s |-> 0, n |-> 0]
    [] tok = sym_fortnight -> [d |-> now.d - 14 * count, s |-> 0, n |-> 0]
    [] tok = sym_month -> MonthsBack(count)
    [] tok = sym_quarter -> MonthsBack(3 * count)
    [] tok = sym_year -> MonthsBack(12 * count)
    [] tok = sym_century -> MonthsBack(1200 * count)

\* The three shapes of a reference to a calendar unit, the counts of
\* n <unit> AGO taken from counts.
CalendarMoved(counts) ==
  \A u \in CalendarUnits :
    /\ (Succeeded /\ tokens = SinceRef(<<tLAST, u>>)) => time_from = MovedBack(u.token, 1)
    /\ (Succeeded /\ tokens = SinceRef(<<u, tBEFORE, tLAST>>)) =>
          time_from = MovedBack(u.token, 2)
    /\ \A c \in counts :
         (Succeeded /\ tokens = SinceRef(<<c, u, tAGO>>)) =>
            time_from = MovedBack(u.token, Atoi(c.val).i)

\* C26: for a calendar unit the resolved date is the current date moved back
\* by count days, 7 * count days, 14 * count days, count months, 3 * count
\* months, count years or 100 * count years on the calendar fields,
\* truncated to midnight.
C26_CalendarUnits == CalendarMoved(Counts \cup {IntLit("4")})

\* The same for the counts up to MaxCount only.
C26_SmallCounts == CalendarMoved(Counts)

\* FIND src_ip BETWEEN '2020-05-04' AND <reference>.
ClosedBy(ref) == <<tFIND, Ident("src_ip"), tBETWEEN, Str("2020-05-04"), tAND>> \o ref

\* The instant a reference standing alone resolves to as an opening bound.
Opening(ref) == do_temp_ref(ref, Len(ref), 0, FALSE, now).t

\* C27: a relative reference resolved as the closing bound of BETWEEN gives
\* the last instant of the referenced period, which is strictly later than
\* the instant the same reference gives as an opening bound.
C27_ClosingBoundLater ==
  \A ref \in {r \in RelRefs : Len(r) = 3 \/ r[1] = tLAST} :
    (Succeeded /\ tokens = ClosedBy(ref)) =>
       \E b \in {time_from, time_to} : TLess(Opening(ref), b)

\* A parse of FIND src_ip SINCE <reference> that resolved the reference for
\* unit u with the given count and left the cursor after its last token.
ResolvedWith(ref, u, count) ==
  (pc = "done" /\ tokens = SinceRef(ref)) =>
     /\ err = NoErr
     /\ token_index = 3 + Len(ref)
     /\ time_from = UnixNano(RelTime(u.token, count, now))

\* The three shapes for the units of us.
ShapesOf(us) ==
  \A u \in us :
    /\ ResolvedWith(<<tLAST, u>>, u, 1)
    /\ ResolvedWith(<<u, tBEFORE, tLAST>>, u, 2)
    /\ \A c \in Counts : ResolvedWith(<<c, u, tAGO>>, u, Atoi(c.val).i)

\* C28: for every unit U, DAY included, LAST U resolves with count 1 and
\* moves the cursor on by 2 tokens, U BEFORE LAST with count 2 and by 3
\* tokens, n U AGO with count n and by 3 tokens; the cursor ends on the
\* first token after the reference.
C28_ThreeShapes == ShapesOf(Units)

\* The same for every unit but DAY.
C28_ExceptDay == ShapesOf(Units \ {tDAY})

\* C29: a parse succeeds only when the temporal clause ends the primary
\* statement: after a successful parse the cursor is at the end of the
\* tokens or on the pipe token, and FIND src_ip SINCE LAST HOUR b and
\* FIND src_ip SINCE 3 HOURS fail.
C29_NothingLeftOver ==
  /\ Succeeded =>
       \/ token_index = num_tokens
       \/ token_index < num_tokens /\ At(tokens, token_index).token = sym_pipe
  /\ (pc = "done" /\ tokens \in {SinceRef(<<tLAST, Kw("clock", "HOUR"), Ident("b")>>),
                                  SinceRef(<<IntLit("3"), Kw("clocks", "HOURS")>>)}) =>
       err # NoErr

\* C30: while the primary statement is parsed no token at or after the
\* first pipe is consumed, the cursor never passes the pipe, and a statement
\* that stops short fails before a pipe as it fails at the end of the input.
C30_PipeIsTheEnd ==
  /\ HasPipe(tokens) => token_index <= FirstPipe(tokens)
  /\ \A st \in Unfinished :
       (pc = "done" /\ (tokens = st \/ \E rest \in AfterPipe : tokens = st \o <<tPIPE>> \o rest))
          => err # NoErr
====
